---- MODULE Spec2Model ----
(***************************************************************************)
(* Master-side subkernel registry of artiq/firmware/runtime/kernel.rs      *)
(* (mod subkernel): the registry SUBKERNELS, the inbound message queue     *)
(* MESSAGE_QUEUE, the partial-message map CURRENT_MESSAGES, and the        *)
(* operations on them.                                                     *)
(*                                                                         *)
(* Every operation takes subkernel_mutex on entry and holds it until it    *)
(* returns, and the wait predicates only run when the mutex is free        *)
(* (test_lock), so an operation is one atomic action.  The transport       *)
(* (drtio::subkernel_upload, subkernel_load, subkernel_retrieve_exception) *)
(* is external: its result is an input of the action.  await_finish        *)
(* releases the mutex between its pre-check, its wait and the status       *)
(* retrieval, so it is a sequence of actions and the link receiver's       *)
(* callbacks run where it is suspended.  An unwrap() of a missing entry    *)
(* and an out-of-range slice are panics: the firmware stops (panicked).    *)
(* Cancellation of the host session (SchedError::Interrupted out of        *)
(* Mutex::lock) is not modelled.                                           *)
(***************************************************************************)
EXTENDS Integers, Sequences, FiniteSets, TLC

\* ------------------------------------------------------------------ bounds
\* The clock (clock::get_ms) is capped at MaxClock.
MaxClock == 2
\* await_finish is called with a timeout in 0..MaxTimeout.
MaxTimeout == 1
\* MsgSpec delivers at most MaxFrames frames in a run.
MaxFrames == 3
\* Size of a frame's payload array (drtioaux_proto), scaled down: the assembly
\* rule does not depend on it.
MASTER_PAYLOAD_MAX_SIZE == 3
\* Size of a slice of exception data sent to the master, scaled down.
SAT_PAYLOAD_MAX_SIZE == 2
\* A Sliceable holds at most MaxData bytes and is asked for at most MaxSlices
\* slices.
MaxData == 5
MaxSlices == 4

\* ------------------------------------------------------------ input values
Ids == {7, 8}
Dests == {1, 2}
Images == {<<1>>, <<2, 3>>}
\* Error strings of the transport, and exception buffers of a satellite.
DrtioErrs == {"link"}
ExceptionBytes == {<<>>, <<5, 6>>}

\* --------------------------------------------------------------- data types
\* enum SubkernelState / FinishStatus
NotLoaded == [tag |-> "NotLoaded"]
Uploaded == [tag |-> "Uploaded"]
Running == [tag |-> "Running"]
Finished(status) == [tag |-> "Finished", status |-> status]
FinishStatus == {"Ok", "CommLost", "Exception"}
SubkernelState == {NotLoaded, Uploaded, Running} \cup {Finished(s) : s \in FinishStatus}

\* Subkernel::new
SubkernelNew(destination, data) ==
    [destination |-> destination, data |-> data, state |-> NotLoaded]

\* Result<T, Error>, Option<T>
Ok(v) == [tag |-> "Ok", val |-> v]
Unit == "()"
Err(e) == [tag |-> "Err", err |-> e]
IncorrectState == [kind |-> "IncorrectState"]
Timeout == [kind |-> "Timeout"]
\* Error::SubkernelFinished (the struct of that name is SubkernelFinished below)
SubkernelFinishedError == [kind |-> "SubkernelFinished"]
\* impl From<&str> for Error
DrtioError(msg) == [kind |-> "DrtioError", msg |-> msg]
None == [some |-> FALSE]
Some(v) == [some |-> TRUE, val |-> v]
\* struct SubkernelFinished
SubkernelFinished(id, comm_lost, exception) ==
    [id |-> id, comm_lost |-> comm_lost, exception |-> exception]

\* What a transport call answers: Ok(payload) or Err(&str).
TransportUnit == {Ok(Unit)} \cup {Err(m) : m \in DrtioErrs}
TransportBytes == {Ok(b) : b \in ExceptionBytes} \cup {Err(m) : m \in DrtioErrs}
\* The `?` on a transport result: the error converted with From<&str>.
Propagate(r) == Err(DrtioError(r.err))

\* BTreeMap
EmptyMap == [k \in {} |-> 0]
Insert(m, k, v) == [x \in (DOMAIN m) \cup {k} |-> IF x = k THEN v ELSE m[x]]
Remove(m, k) == [x \in (DOMAIN m) \ {k} |-> m[x]]

\* ----------------------------------------------------------------- state
VARIABLES
    SUBKERNELS,        \* BTreeMap<u32, Subkernel>
    MESSAGE_QUEUE,     \* Vec<Message>
    CURRENT_MESSAGES,  \* BTreeMap<u32, Message>
    clock,             \* clock::get_ms()
    pc,                \* where the host task is: idle, or inside await_finish
    panicked,          \* an unwrap() or a slice index has panicked
    last,              \* the step just taken: operation, inputs, result, transport calls
    pending,           \* history: per id, the frames accepted into its partial message
    nframes,           \* history: the frames delivered so far
    \* satellite (satman/kernel.rs)
    kernels,           \* Manager.kernels: BTreeMap<u32, KernelLibrary>
    current_id,        \* Manager.current_id
    session,           \* Manager.session: kernel_state, last_exception, messages
    cache,             \* Manager.cache: whether a run holds a borrow
    last_finished,     \* Manager.last_finished
    reset,             \* csr::kernel_cpu reset register: 1 holds the processor in reset
    cricon,            \* the RTIO arbiter: "Drtio" or "Kernel"
    mailbox,           \* what the auxiliary processor has posted: mailbox::receive()
    dropped,           \* the Manager has been dropped
    sliceable,         \* a Sliceable on its own
    sliced             \* history: what get_slice has returned since Sliceable::new

msgvars == <<MESSAGE_QUEUE, CURRENT_MESSAGES, pending, nframes>>
mastervars == <<SUBKERNELS, msgvars, pc>>
managervars == <<kernels, current_id, session, cache, last_finished, reset, cricon,
                 mailbox, dropped>>
satvars == <<managervars, sliceable, sliced>>
vars == <<SUBKERNELS, MESSAGE_QUEUE, CURRENT_MESSAGES, clock, pc, panicked, last,
          pending, nframes, satvars>>

Idle == [name |-> "idle"]
Panic == [tag |-> "Panic"]

\* ------------------------------------------------- satellite: data types
\* enum KernelState; Running is the record of that name above.
Absent == [tag |-> "Absent"]
Loaded == [tag |-> "Loaded"]
MsgAwait(max_time) == [tag |-> "MsgAwait", max_time |-> max_time]
MsgSending == [tag |-> "MsgSending"]

\* enum OutMessageState
OutMessageState ==
    {"NoMessage", "MessageReady", "MessageBeingSent", "MessageSent",
     "MessageAcknowledged"}

Min(a, b) == IF a < b THEN a ELSE b

\* data[from..to] of a byte sequence, positions counted from 0 as in the source.
Slice(data, from, to) == SubSeq(data, from + 1, to)

\* Sliceable::new
SliceableNew(data) == [it |-> 0, data |-> data]
\* struct SliceMeta
SliceMeta(len, lastf) == [len |-> len, last |-> lastf]

\* get_slice_fn that takes a slice shorter than the slice size for the last
\* one.
get_slice_fn_short_is_last(self, size) ==
    LET len == Min(size, Len(self.data) - self.it)
    IN [self |-> [self EXCEPT !.it = @ + len],
        meta |-> SliceMeta(len, len < size),
        data_slice |-> Slice(self.data, self.it, self.it + len)]

\* macro get_slice_fn: the Sliceable after the call, the SliceMeta returned and
\* the bytes written to data_slice[..len].
get_slice_fn(self, size) ==
    IF Len(self.data) = 0
    THEN [self |-> self, meta |-> SliceMeta(0, TRUE), data_slice |-> <<>>]
    ELSE LET len == Min(size, Len(self.data) - self.it)
             lastf == self.it + len = Len(self.data)
         IN [self |-> [self EXCEPT !.it = @ + len],
             meta |-> SliceMeta(len, lastf),
             data_slice |-> Slice(self.data, self.it, self.it + len)]

get_slice_sat(self) == get_slice_fn(self, SAT_PAYLOAD_MAX_SIZE)
get_slice_master(self) == get_slice_fn(self, MASTER_PAYLOAD_MAX_SIZE)

\* MessageManager::new
MessageManagerNew ==
    [out_message |-> None, out_state |-> "NoMessage", in_queue |-> <<>>,
     in_buffer |-> None]

\* Session::new (the log buffer is left out)
SessionNew ==
    [kernel_state |-> Absent, last_exception |-> None, messages |-> MessageManagerNew]

\* Cache::new: no entry is borrowed
CacheNew == [borrowed |-> FALSE]

\* mailbox::receive() == 0: the auxiliary processor has posted nothing
NoRequest == [kind |-> "NoRequest"]

Init ==
    /\ SUBKERNELS = EmptyMap
    /\ MESSAGE_QUEUE = <<>>
    /\ CURRENT_MESSAGES = EmptyMap
    /\ clock = 0
    /\ pc = Idle
    /\ panicked = FALSE
    /\ last = [op |-> "init"]
    /\ pending = [id \in Ids |-> <<>>]
    /\ nframes = 0
    /\ kernels = EmptyMap
    /\ current_id = 0
    /\ session = SessionNew
    /\ cache = CacheNew
    /\ last_finished = None
    /\ reset = 1
    /\ cricon = "Drtio"
    /\ mailbox = NoRequest
    /\ dropped = FALSE
    /\ sliceable = SliceableNew(<<>>)
    /\ sliced = <<>>

\* The host task can start an operation.
HostReady == ~panicked /\ pc = Idle
\* The link receiver can deliver a callback: at any point where the host task
\* is suspended or idle.  Between the wait predicate answering and the read of
\* the clock that follows the wait (lines 301, 384) the host task runs on
\* without a suspension.
LinkReady ==
    ~panicked /\ ~(pc.name \in {"await_finish", "message_await"} /\ pc.at = "check")

\* get(&id).unwrap() on a missing entry.
UnwrapPanics(op, id) ==
    /\ id \notin DOMAIN SUBKERNELS
    /\ panicked' = TRUE
    /\ last' = [op |-> op, id |-> id, at |-> "precheck", ret |-> Panic]
    /\ UNCHANGED <<SUBKERNELS, msgvars, clock, pc>>
    /\ UNCHANGED satvars

SetState(id, state) == [SUBKERNELS EXCEPT ![id].state = state]

\* -------------------------------------------------------------- operations
\* What an operation's body computes under the mutex: the registry it leaves
\* (reg), the transport calls it makes, each with the transport's answer
\* (calls), and what it returns (ret).
Effect(reg, calls, ret) == [reg |-> reg, calls |-> calls, ret |-> ret]
Call(fn, args, answer) == [fn |-> fn, args |-> args, answer |-> answer]
\* Result of the `?` applied to a transport answer.
Try(r) == IF r.tag = "Ok" THEN Ok(Unit) ELSE Propagate(r)

\* An operation of the host task on a registered id: it applies the body's
\* effect and returns.
HostOp(op, id, args, effect) ==
    /\ HostReady
    /\ UNCHANGED satvars
    /\ \/ UnwrapPanics(op, id)
       \/ /\ id \in DOMAIN SUBKERNELS
          /\ SUBKERNELS' = effect.reg
          /\ last' = [op |-> op, id |-> id, args |-> args,
                      calls |-> effect.calls, ret |-> effect.ret]
          /\ UNCHANGED <<msgvars, clock, pc, panicked>>

\* add_subkernel that keeps an entry the registry already holds (entry().or_insert
\* in place of insert).
add_subkernel_body_or_insert(id, destination, kernel) ==
    IF id \in DOMAIN SUBKERNELS THEN SUBKERNELS
    ELSE Insert(SUBKERNELS, id, SubkernelNew(destination, kernel))

\* pub fn add_subkernel: the registry after the insert.
add_subkernel_body(id, destination, kernel) ==
    Insert(SUBKERNELS, id, SubkernelNew(destination, kernel))

add_subkernel(id, destination, kernel) ==
    /\ HostReady
    /\ SUBKERNELS' = add_subkernel_body(id, destination, kernel)
    /\ last' = [op |-> "add_subkernel", id |-> id,
                args |-> <<destination, kernel>>, calls |-> <<>>, ret |-> Unit,
                \* what BTreeMap::insert returns (the code drops it)
                replaced |-> IF id \in DOMAIN SUBKERNELS
                             THEN Some(SUBKERNELS[id]) ELSE None]
    /\ UNCHANGED <<msgvars, clock, pc, panicked>>
    /\ UNCHANGED satvars

\* upload that sets the state before it asks the transport.
upload_body_marks_first(id, r) ==
    LET subkernel == SUBKERNELS[id]
        call == Call("upload", <<id, subkernel.destination, subkernel.data>>, r)
    IN Effect(SetState(id, Uploaded), <<call>>, Try(r))

\* pub fn upload; r is what drtio::subkernel_upload answers.
upload_body(id, r) ==
    LET subkernel == SUBKERNELS[id]
        call == Call("upload", <<id, subkernel.destination, subkernel.data>>, r)
    IN IF r.tag = "Ok"
       THEN Effect(SetState(id, Uploaded), <<call>>, Ok(Unit))
       ELSE Effect(SUBKERNELS, <<call>>, Propagate(r))

upload(id, r) == HostOp("upload", id, <<>>, upload_body(id, r))

\* load without the check of the entry's state.
load_body_unchecked(id, run, r) ==
    LET subkernel == SUBKERNELS[id]
        call == Call("load", <<id, subkernel.destination, run>>, r)
    IN IF r.tag # "Ok"
       THEN Effect(SUBKERNELS, <<call>>, Propagate(r))
       ELSE Effect(IF run THEN SetState(id, Running) ELSE SUBKERNELS, <<call>>, Ok(Unit))

\* load that sets Running before it asks the transport.
load_body_runs_on_error(id, run, r) ==
    LET subkernel == SUBKERNELS[id]
        call == Call("load", <<id, subkernel.destination, run>>, r)
    IN IF subkernel.state # Uploaded
       THEN Effect(SUBKERNELS, <<>>, Err(IncorrectState))
       ELSE Effect(IF run THEN SetState(id, Running) ELSE SUBKERNELS, <<call>>, Try(r))

\* pub fn load; r is what drtio::subkernel_load answers.
load_body(id, run, r) ==
    LET subkernel == SUBKERNELS[id]
        call == Call("load", <<id, subkernel.destination, run>>, r)
    IN IF subkernel.state # Uploaded
       THEN Effect(SUBKERNELS, <<>>, Err(IncorrectState))
       ELSE IF r.tag # "Ok"
       THEN Effect(SUBKERNELS, <<call>>, Propagate(r))
       ELSE Effect(IF run THEN SetState(id, Running) ELSE SUBKERNELS, <<call>>, Ok(Unit))

load(id, run, r) == HostOp("load", id, <<run>>, load_body(id, run, r))

\* clear_subkernels that leaves the queue of completed messages.
clear_subkernels_body_keeps_queue ==
    [reg |-> EmptyMap, queue |-> MESSAGE_QUEUE, current |-> EmptyMap]

\* pub fn clear_subkernels, lines 212-216: what the three statics are set to.
clear_subkernels_body ==
    [reg |-> EmptyMap, queue |-> <<>>, current |-> EmptyMap]

\* pub fn clear_subkernels
clear_subkernels ==
    /\ HostReady
    /\ SUBKERNELS' = clear_subkernels_body.reg
    /\ MESSAGE_QUEUE' = clear_subkernels_body.queue
    /\ CURRENT_MESSAGES' = clear_subkernels_body.current
    /\ pending' = [id \in Ids |-> <<>>]
    /\ last' = [op |-> "clear_subkernels", ret |-> Unit,
                cleared |-> [reg |-> Cardinality(DOMAIN SUBKERNELS),
                             queue |-> Len(MESSAGE_QUEUE),
                             from_ids |-> {MESSAGE_QUEUE[i].from_id :
                                             i \in 1..Len(MESSAGE_QUEUE)},
                             current |-> Cardinality(DOMAIN CURRENT_MESSAGES)]]
    /\ UNCHANGED <<nframes, clock, pc, panicked>>
    /\ UNCHANGED satvars

\* subkernel_finished that makes an entry for an id the registry does not hold.
subkernel_finished_body_inserts(id, with_exception) ==
    LET state == Finished(IF with_exception THEN "Exception" ELSE "Ok")
    IN IF id \in DOMAIN SUBKERNELS
       THEN SetState(id, state)
       ELSE Insert(SUBKERNELS, id, [SubkernelNew(0, <<>>) EXCEPT !.state = state])

\* pub fn subkernel_finished, called by the link receiver on SubkernelRunDone:
\* the registry it leaves.
subkernel_finished_body(id, with_exception) ==
    IF id \in DOMAIN SUBKERNELS
    THEN SetState(id, Finished(IF with_exception THEN "Exception" ELSE "Ok"))
    ELSE SUBKERNELS

subkernel_finished(id, with_exception) ==
    /\ LinkReady
    /\ SUBKERNELS' = subkernel_finished_body(id, with_exception)
    /\ last' = [op |-> "subkernel_finished", id |-> id,
                args |-> <<with_exception>>, calls |-> <<>>, ret |-> Unit]
    /\ UNCHANGED <<msgvars, clock, pc, panicked>>
    /\ UNCHANGED satvars

\* The ids of a set in ascending order: the order BTreeMap::iter_mut visits them.
RECURSIVE Ascending(_)
Ascending(S) ==
    IF S = {} THEN <<>>
    ELSE LET m == CHOOSE x \in S : \A y \in S : x <= y
         IN <<m>> \o Ascending(S \ {m})

\* The entries of the registry that are on a destination.
IdsAt(destination) ==
    {id \in DOMAIN SUBKERNELS : SUBKERNELS[id].destination = destination}

\* destination_changed that, on a destination going down, resets only the
\* entries that are Uploaded.
destination_changed_body_keeps_finished(destination, up, res) ==
    Effect(
        [id \in DOMAIN SUBKERNELS |->
            LET subkernel == SUBKERNELS[id] IN
            IF subkernel.destination # destination \/ up THEN subkernel
            ELSE [subkernel EXCEPT !.state =
                     IF subkernel.state = Running THEN Finished("CommLost")
                     ELSE IF subkernel.state = Uploaded THEN NotLoaded
                     ELSE subkernel.state]],
        <<>>, Unit)

\* destination_changed that marks an entry Uploaded whatever its upload answers.
destination_changed_body_marks_all(destination, up, res) ==
    LET order == Ascending(IdsAt(destination))
    IN Effect(
        [id \in DOMAIN SUBKERNELS |->
            LET subkernel == SUBKERNELS[id] IN
            IF subkernel.destination # destination THEN subkernel
            ELSE IF up THEN [subkernel EXCEPT !.state = Uploaded]
            ELSE [subkernel EXCEPT !.state =
                     IF subkernel.state = Running
                     THEN Finished("CommLost") ELSE NotLoaded]],
        IF up
        THEN [i \in 1..Len(order) |->
                Call("upload", <<order[i], destination, SUBKERNELS[order[i]].data>>,
                     res[order[i]])]
        ELSE <<>>,
        Unit)

\* pub fn destination_changed, called by the link receiver; res[id] is what
\* drtio::subkernel_upload answers for entry id (asked only when up).
destination_changed_body(destination, up, res) ==
    LET order == Ascending(IdsAt(destination))
    IN Effect(
        [id \in DOMAIN SUBKERNELS |->
            LET subkernel == SUBKERNELS[id] IN
            IF subkernel.destination # destination THEN subkernel
            ELSE IF up
                 THEN IF res[id].tag = "Ok"
                      THEN [subkernel EXCEPT !.state = Uploaded]
                      ELSE subkernel
                 ELSE [subkernel EXCEPT !.state =
                          IF subkernel.state = Running
                          THEN Finished("CommLost") ELSE NotLoaded]],
        IF up
        THEN [i \in 1..Len(order) |->
                Call("upload", <<order[i], destination, SUBKERNELS[order[i]].data>>,
                     res[order[i]])]
        ELSE <<>>,
        Unit)

destination_changed(destination, up, res) ==
    /\ LinkReady
    /\ LET effect == destination_changed_body(destination, up, res)
       IN /\ SUBKERNELS' = effect.reg
          /\ last' = [op |-> "destination_changed", id |-> 0,
                      args |-> <<destination, up>>,
                      calls |-> effect.calls, ret |-> effect.ret]
    /\ UNCHANGED <<msgvars, clock, pc, panicked>>
    /\ UNCHANGED satvars

\* retrieve_finish_status that does not consume the status.
retrieve_finish_status_body_keeps(id, r) ==
    LET subkernel == SUBKERNELS[id]
        call == Call("retrieve_exception", <<subkernel.destination>>, r)
    IN IF subkernel.state.tag = "Finished"
       THEN LET status == subkernel.state.status IN
            IF status = "Exception"
            THEN Effect(SUBKERNELS, <<call>>,
                        IF r.tag = "Ok"
                        THEN Ok(SubkernelFinished(id, status = "CommLost", Some(r.val)))
                        ELSE Propagate(r))
            ELSE Effect(SUBKERNELS, <<>>,
                        Ok(SubkernelFinished(id, status = "CommLost", None)))
       ELSE Effect(SUBKERNELS, <<>>, Err(IncorrectState))

\* pub fn retrieve_finish_status; r is what drtio::subkernel_retrieve_exception
\* answers when it is asked.
retrieve_finish_status_body(id, r) ==
    LET subkernel == SUBKERNELS[id]
        call == Call("retrieve_exception", <<subkernel.destination>>, r)
    IN IF subkernel.state.tag = "Finished"
       THEN LET status == subkernel.state.status IN
            IF status = "Exception"
            THEN Effect(SetState(id, Uploaded), <<call>>,
                        IF r.tag = "Ok"
                        THEN Ok(SubkernelFinished(id, status = "CommLost", Some(r.val)))
                        ELSE Propagate(r))
            ELSE Effect(SetState(id, Uploaded), <<>>,
                        Ok(SubkernelFinished(id, status = "CommLost", None)))
       ELSE Effect(SUBKERNELS, <<>>, Err(IncorrectState))

retrieve_finish_status(id, r) ==
    HostOp("retrieve_finish_status", id, <<>>, retrieve_finish_status_body(id, r))

\* The result of an await_finish that has not returned yet.
Pending == [tag |-> "Pending"]
AwaitFinish(at, id, max_time) ==
    [name |-> "await_finish", at |-> at, id |-> id, max_time |-> max_time]
AwaitStep(at, id, ret) ==
    [op |-> "await_finish", at |-> at, id |-> id, args |-> <<>>, calls |-> <<>>,
     ret |-> ret]

\* pub fn await_finish, lines 278-285: whether the pre-check under the mutex
\* passes.
await_finish_precheck_passes(state) == state.tag \in {"Running", "Finished"}

\* Lines 278-285: the pre-check, then the deadline.
await_finish_precheck(id, timeout) ==
    /\ HostReady
    /\ \/ UnwrapPanics("await_finish", id)
       \/ /\ id \in DOMAIN SUBKERNELS
          /\ IF await_finish_precheck_passes(SUBKERNELS[id].state)
             THEN /\ pc' = AwaitFinish("until", id, clock + timeout)
                  /\ last' = [AwaitStep("precheck", id, Pending)
                                EXCEPT !.args = <<timeout>>]
             ELSE /\ pc' = pc
                  /\ last' = [AwaitStep("precheck", id, Err(IncorrectState))
                                EXCEPT !.args = <<timeout>>]
          /\ UNCHANGED <<SUBKERNELS, msgvars, clock, panicked>>
    /\ UNCHANGED satvars

\* The predicate given to io.until (lines 286-300), when it answers true; while
\* it answers false the task stays suspended.
await_finish_until ==
    /\ ~panicked
    /\ pc.name = "await_finish" /\ pc.at = "until"
    /\ IF clock > pc.max_time
       THEN /\ pc' = [pc EXCEPT !.at = "check"]
            /\ last' = AwaitStep("until", pc.id, Pending)
            /\ panicked' = panicked
       ELSE IF pc.id \notin DOMAIN SUBKERNELS
       THEN /\ pc' = pc
            /\ last' = AwaitStep("until", pc.id, Panic)
            /\ panicked' = TRUE
       ELSE /\ SUBKERNELS[pc.id].state.tag = "Finished"
            /\ pc' = [pc EXCEPT !.at = "check"]
            /\ last' = AwaitStep("until", pc.id, Pending)
            /\ panicked' = panicked
    /\ UNCHANGED <<SUBKERNELS, msgvars, clock>>
    /\ UNCHANGED satvars

\* Lines 301-304: the deadline is read again after the wait.
await_finish_check ==
    /\ ~panicked
    /\ pc.name = "await_finish" /\ pc.at = "check"
    /\ IF clock > pc.max_time
       THEN /\ pc' = Idle
            /\ last' = AwaitStep("return", pc.id, Err(Timeout))
       ELSE /\ pc' = [pc EXCEPT !.at = "retrieve"]
            /\ last' = AwaitStep("check", pc.id, Pending)
    /\ UNCHANGED <<SUBKERNELS, msgvars, clock, panicked>>
    /\ UNCHANGED satvars

\* Line 305: retrieve_finish_status takes the mutex again and its result is
\* returned.
await_finish_retrieve(r) ==
    /\ ~panicked
    /\ pc.name = "await_finish" /\ pc.at = "retrieve"
    /\ IF pc.id \notin DOMAIN SUBKERNELS
       THEN /\ SUBKERNELS' = SUBKERNELS
            /\ pc' = pc
            /\ last' = AwaitStep("return", pc.id, Panic)
            /\ panicked' = TRUE
       ELSE LET effect == retrieve_finish_status_body(pc.id, r)
            IN /\ SUBKERNELS' = effect.reg
               /\ pc' = Idle
               /\ last' = [AwaitStep("return", pc.id, effect.ret)
                             EXCEPT !.calls = effect.calls]
               /\ panicked' = panicked
    /\ UNCHANGED <<msgvars, clock>>
    /\ UNCHANGED satvars

\* struct Message
Message(from_id, tag_count, tag, data) ==
    [from_id |-> from_id, tag_count |-> tag_count, tag |-> tag, data |-> data]

\* A frame as the link receiver hands it over: the last flag, the length and the
\* payload array.
Frame(lastf, length, data) == [last |-> lastf, length |-> length, data |-> data]

\* message_handle_incoming that takes the payload of a first frame from byte 0.
message_handle_incoming_body_raw(id, lastf, length, data) ==
    LET current ==
            IF id \in DOMAIN CURRENT_MESSAGES
            THEN [CURRENT_MESSAGES EXCEPT ![id].data = @ \o Slice(data, 0, length)]
            ELSE Insert(CURRENT_MESSAGES, id,
                        Message(id, data[1], data[2], Slice(data, 0, length)))
    IN IF lastf
       THEN [queue |-> Append(MESSAGE_QUEUE, current[id]), current |-> Remove(current, id)]
       ELSE [queue |-> MESSAGE_QUEUE, current |-> current]

\* pub fn message_handle_incoming, lines 332-348, for a registered id: the
\* partial-message map and the queue it leaves.
message_handle_incoming_body(id, lastf, length, data) ==
    LET current ==
            IF id \in DOMAIN CURRENT_MESSAGES
            THEN [CURRENT_MESSAGES EXCEPT ![id].data = @ \o Slice(data, 0, length)]
            ELSE Insert(CURRENT_MESSAGES, id,
                        Message(id, data[1], data[2], Slice(data, 2, length)))
    IN IF lastf
       THEN [queue |-> Append(MESSAGE_QUEUE, current[id]), current |-> Remove(current, id)]
       ELSE [queue |-> MESSAGE_QUEUE, current |-> current]

\* pub fn message_handle_incoming, called by the link receiver.
message_handle_incoming(id, lastf, length, data) ==
    /\ LinkReady
    /\ nframes < MaxFrames
    /\ nframes' = nframes + 1
    /\ IF id \notin DOMAIN SUBKERNELS
       THEN /\ last' = [op |-> "message_handle_incoming", id |-> id,
                        args |-> Frame(lastf, length, data), calls |-> <<>>, ret |-> Unit]
            /\ UNCHANGED <<MESSAGE_QUEUE, CURRENT_MESSAGES, pending, panicked>>
       ELSE IF id \notin DOMAIN CURRENT_MESSAGES /\ length < 2
       \* data[2..length] with length < 2: the slice index panics
       THEN /\ last' = [op |-> "message_handle_incoming", id |-> id,
                        args |-> Frame(lastf, length, data), calls |-> <<>>, ret |-> Panic]
            /\ panicked' = TRUE
            /\ UNCHANGED <<MESSAGE_QUEUE, CURRENT_MESSAGES, pending>>
       ELSE LET out == message_handle_incoming_body(id, lastf, length, data)
            IN /\ MESSAGE_QUEUE' = out.queue
               /\ CURRENT_MESSAGES' = out.current
               /\ pending' = [pending EXCEPT
                                ![id] = IF lastf THEN <<>>
                                        ELSE Append(@, Frame(lastf, length, data))]
               /\ last' = [op |-> "message_handle_incoming", id |-> id,
                           args |-> Frame(lastf, length, data), calls |-> <<>>,
                           ret |-> Unit]
               /\ panicked' = panicked
    /\ UNCHANGED <<SUBKERNELS, clock, pc>>
    /\ UNCHANGED satvars

\* The position of the host task inside message_await, and a step of it.
MessageAwait(at, id, max_time) ==
    [name |-> "message_await", at |-> at, id |-> id, max_time |-> max_time]
MessageAwaitStep(at, id, ret) ==
    [op |-> "message_await", at |-> at, id |-> id, args |-> <<>>, calls |-> <<>>,
     ret |-> ret]

\* The pre-check that takes a Finished entry for one that can be waited on.
message_await_precheck_result_waits(state) ==
    IF state = Running \/ state.tag = "Finished" THEN Pending
    ELSE Err(IncorrectState)

\* pub fn message_await, lines 355-359: the match on the entry's state; Pending
\* stands for going on to the wait.
message_await_precheck_result(state) ==
    IF state.tag = "Finished" THEN Err(SubkernelFinishedError)
    ELSE IF state = Running THEN Pending
    ELSE Err(IncorrectState)

\* Lines 353-361: the pre-check under the mutex, then the deadline.
message_await_precheck(id, timeout) ==
    /\ HostReady
    /\ \/ UnwrapPanics("message_await", id)
       \/ /\ id \in DOMAIN SUBKERNELS
          /\ LET ret == message_await_precheck_result(SUBKERNELS[id].state)
             IN /\ pc' = IF ret = Pending
                         THEN MessageAwait("until", id, clock + timeout) ELSE pc
                /\ last' = [MessageAwaitStep("precheck", id, ret)
                              EXCEPT !.args = <<timeout>>]
          /\ UNCHANGED <<SUBKERNELS, msgvars, clock, panicked>>
    /\ UNCHANGED satvars

\* The scan that takes the newest message of id.
message_await_scan_newest(id) ==
    LET hits == {i \in 1..Len(MESSAGE_QUEUE) : MESSAGE_QUEUE[i].from_id = id}
    IN IF hits = {} THEN 0 ELSE CHOOSE i \in hits : \A j \in hits : j <= i

\* Lines 369-375: the position in MESSAGE_QUEUE (from 1) of the first message
\* whose from_id is id, 0 when there is none.
message_await_scan(id) ==
    LET hits == {i \in 1..Len(MESSAGE_QUEUE) : MESSAGE_QUEUE[i].from_id = id}
    IN IF hits = {} THEN 0 ELSE CHOOSE i \in hits : \A j \in hits : i <= j

\* Vec::remove(i), positions from 1.
RemoveAt(q, i) == SubSeq(q, 1, i - 1) \o SubSeq(q, i + 1, Len(q))

\* The predicate given to io.until_ok (lines 362-381), when it answers Ok; while
\* it answers Err(()) the task stays suspended.  Ok(Some(message)) is returned
\* to the caller at once (line 382).
message_await_until ==
    /\ ~panicked
    /\ pc.name = "message_await" /\ pc.at = "until"
    /\ IF clock > pc.max_time
       THEN /\ pc' = [pc EXCEPT !.at = "check"]
            /\ last' = MessageAwaitStep("until", pc.id, Pending)
            /\ UNCHANGED <<MESSAGE_QUEUE, panicked>>
       ELSE IF message_await_scan(pc.id) # 0
       THEN /\ MESSAGE_QUEUE' = RemoveAt(MESSAGE_QUEUE, message_await_scan(pc.id))
            /\ pc' = Idle
            /\ last' = MessageAwaitStep("return", pc.id,
                                        Ok(MESSAGE_QUEUE[message_await_scan(pc.id)]))
            /\ panicked' = panicked
       ELSE IF pc.id \notin DOMAIN SUBKERNELS
       THEN /\ pc' = pc
            /\ last' = MessageAwaitStep("until", pc.id, Panic)
            /\ panicked' = TRUE
            /\ MESSAGE_QUEUE' = MESSAGE_QUEUE
       ELSE /\ SUBKERNELS[pc.id].state.tag = "Finished"
            /\ pc' = [pc EXCEPT !.at = "check"]
            /\ last' = MessageAwaitStep("until", pc.id, Pending)
            /\ UNCHANGED <<MESSAGE_QUEUE, panicked>>
    /\ UNCHANGED <<SUBKERNELS, CURRENT_MESSAGES, pending, nframes, clock>>
    /\ UNCHANGED satvars

\* Lines 383-385: Ok(None) out of the wait, the deadline is read again.
message_await_check ==
    /\ ~panicked
    /\ pc.name = "message_await" /\ pc.at = "check"
    /\ IF clock > pc.max_time
       THEN /\ pc' = Idle
            /\ last' = MessageAwaitStep("return", pc.id, Err(Timeout))
       ELSE /\ pc' = [pc EXCEPT !.at = "recheck"]
            /\ last' = MessageAwaitStep("check", pc.id, Pending)
    /\ UNCHANGED <<SUBKERNELS, msgvars, clock, panicked>>
    /\ UNCHANGED satvars

\* Lines 387-391: the mutex is taken again and the entry's state decides the
\* error.
message_await_recheck ==
    /\ ~panicked
    /\ pc.name = "message_await" /\ pc.at = "recheck"
    /\ IF pc.id \notin DOMAIN SUBKERNELS
       THEN /\ pc' = pc
            /\ last' = MessageAwaitStep("return", pc.id, Panic)
            /\ panicked' = TRUE
       ELSE /\ pc' = Idle
            /\ last' = MessageAwaitStep("return", pc.id,
                          IF SUBKERNELS[pc.id].state.tag = "Finished"
                          THEN Err(SubkernelFinishedError) ELSE Err(IncorrectState))
            /\ panicked' = panicked
    /\ UNCHANGED <<SUBKERNELS, msgvars, clock>>
    /\ UNCHANGED satvars

\* clock::get_ms() advances.
Tick ==
    /\ ~panicked
    /\ clock < MaxClock
    /\ clock' = clock + 1
    /\ last' = [op |-> "tick"]
    /\ UNCHANGED <<SUBKERNELS, msgvars, pc, panicked>>
    /\ UNCHANGED satvars

\* ------------------------------------------------------------ specifications
\* The lifecycle of the registry entries: the host task's operations, the link
\* receiver's callbacks and the clock.
Next ==
    \/ \E id \in Ids, d \in Dests, k \in Images : add_subkernel(id, d, k)
    \/ \E id \in Ids, r \in TransportUnit : upload(id, r)
    \/ \E id \in Ids, run \in BOOLEAN, r \in TransportUnit : load(id, run, r)
    \/ clear_subkernels
    \/ \E id \in Ids, e \in BOOLEAN : subkernel_finished(id, e)
    \/ \E d \in Dests : destination_changed(d, FALSE, EmptyMap)
    \/ \E d \in Dests : \E res \in [IdsAt(d) -> TransportUnit] :
          destination_changed(d, TRUE, res)
    \/ \E id \in Ids, r \in TransportBytes : retrieve_finish_status(id, r)
    \/ \E id \in Ids, t \in 0..MaxTimeout : await_finish_precheck(id, t)
    \/ await_finish_until
    \/ await_finish_check
    \/ \E r \in TransportBytes : await_finish_retrieve(r)
    \/ Tick

Spec == Init /\ [][Next]_vars

\* The payload array of the n-th frame the link delivers: every byte differs
\* from every other byte of the run.
FramePayload(n) == [i \in 1..MASTER_PAYLOAD_MAX_SIZE |-> 10 * n + i]

\* The message path: frames arriving from the link while the host task
\* registers and clears subkernels and run-done notifications arrive.
MsgNext ==
    \/ \E id \in Ids : add_subkernel(id, 1, <<1>>)
    \/ clear_subkernels
    \/ \E id \in Ids, e \in BOOLEAN : subkernel_finished(id, e)
    \/ \E id \in Ids, lastf \in BOOLEAN, length \in 0..MASTER_PAYLOAD_MAX_SIZE :
          message_handle_incoming(id, lastf, length, FramePayload(nframes + 1))

MsgSpec == Init /\ [][MsgNext]_vars

\* The host task waiting for messages of a running subkernel: subkernels are
\* registered, uploaded, started and cleared, the link delivers messages of
\* one frame, run-done notifications and a lost destination, and the clock
\* advances.
AwaitNext ==
    \/ \E id \in Ids : add_subkernel(id, 1, <<1>>)
    \/ \E id \in Ids : upload(id, Ok(Unit))
    \/ \E id \in Ids : load(id, TRUE, Ok(Unit))
    \/ clear_subkernels
    \/ \E id \in Ids : subkernel_finished(id, FALSE)
    \/ destination_changed(1, FALSE, EmptyMap)
    \/ \E id \in Ids :
          message_handle_incoming(id, TRUE, MASTER_PAYLOAD_MAX_SIZE,
                                  FramePayload(nframes + 1))
    \/ \E id \in Ids, t \in 0..MaxTimeout : message_await_precheck(id, t)
    \/ message_await_until
    \/ message_await_check
    \/ message_await_recheck
    \/ Tick

AwaitSpec == Init /\ [][AwaitNext]_vars

\* ------------------------------------------------- satellite: Sliceable
Bytes == {1, 2}
ByteSeqs == UNION {[1..n -> Bytes] : n \in 0..MaxData}

\* Sliceable::new(data)
Sliceable_new(data) ==
    /\ ~panicked
    /\ sliceable' = SliceableNew(data)
    /\ sliced' = <<>>
    /\ last' = [op |-> "Sliceable::new", args |-> <<data>>]
    /\ UNCHANGED <<mastervars, managervars, clock, panicked>>

\* A call of the get_slice function of the given slice size.
Sliceable_get_slice(size, out) ==
    /\ ~panicked
    /\ Len(sliced) < MaxSlices
    /\ sliceable' = out.self
    /\ sliced' = Append(sliced, [size |-> size, meta |-> out.meta,
                                 data_slice |-> out.data_slice])
    /\ last' = [op |-> "get_slice", args |-> <<size>>, ret |-> out.meta]
    /\ UNCHANGED <<mastervars, managervars, clock, panicked>>

Sliceable_get_slice_sat ==
    Sliceable_get_slice(SAT_PAYLOAD_MAX_SIZE, get_slice_sat(sliceable))
Sliceable_get_slice_master ==
    Sliceable_get_slice(MASTER_PAYLOAD_MAX_SIZE, get_slice_master(sliceable))

\* A Sliceable made from any data and asked for slices of either size.
SliceNext ==
    \/ \E data \in ByteSeqs : Sliceable_new(data)
    \/ Sliceable_get_slice_sat
    \/ Sliceable_get_slice_master

SliceSpec == Init /\ [][SliceNext]_vars

\* -------------------------------------------- satellite: MessageManager
\* The methods of MessageManager as functions of the MessageManager self: the
\* MessageManager after the call (self) and what the call returns (ret).
Returns(self, ret) == [self |-> self, ret |-> ret]

\* struct Message (satellite)
SatMessage(count, tag, data) == [count |-> count, tag |-> tag, data |-> data]

\* MessageManager::handle_incoming, lines 199-212; a first frame with
\* length < 2 panics at data[2..length].
handle_incoming_panics(self, length) == ~self.in_buffer.some /\ length < 2
\* handle_incoming that takes the payload of a first frame from byte 0.
handle_incoming_raw(self, lastf, length, data) ==
    LET message ==
            IF self.in_buffer.some
            THEN [self.in_buffer.val EXCEPT !.data = @ \o Slice(data, 0, length)]
            ELSE SatMessage(data[1], data[2], Slice(data, 0, length))
    IN IF lastf
       THEN [self EXCEPT !.in_queue = Append(@, message), !.in_buffer = None]
       ELSE [self EXCEPT !.in_buffer = Some(message)]
handle_incoming(self, lastf, length, data) ==
    LET message ==
            IF self.in_buffer.some
            THEN [self.in_buffer.val EXCEPT !.data = @ \o Slice(data, 0, length)]
            ELSE SatMessage(data[1], data[2], Slice(data, 2, length))
    IN IF lastf
       THEN [self EXCEPT !.in_queue = Append(@, message), !.in_buffer = None]
       ELSE [self EXCEPT !.in_buffer = Some(message)]

\* MessageManager::is_outgoing_ready
is_outgoing_ready(self) ==
    IF self.out_state = "MessageReady"
    THEN Returns([self EXCEPT !.out_state = "MessageBeingSent"], TRUE)
    ELSE Returns(self, FALSE)

\* was_message_acknowledged that reports the acknowledgement and keeps the
\* state.
was_message_acknowledged_keeps(self) ==
    Returns(self, self.out_state = "MessageAcknowledged")

\* MessageManager::was_message_acknowledged
was_message_acknowledged(self) ==
    IF self.out_state = "MessageAcknowledged"
    THEN Returns([self EXCEPT !.out_state = "NoMessage"], TRUE)
    ELSE Returns(self, FALSE)

\* get_outgoing_slice that hands out slices in every state that has a message.
get_outgoing_slice_any_state(self) ==
    IF ~self.out_message.some THEN Returns(self, None)
    ELSE LET out == get_slice_master(self.out_message.val)
         IN IF out.meta.last
            THEN Returns([self EXCEPT !.out_message = None, !.out_state = "MessageSent"],
                         Some([meta |-> out.meta, data_slice |-> out.data_slice]))
            ELSE Returns([self EXCEPT !.out_message = Some(out.self)],
                         Some([meta |-> out.meta, data_slice |-> out.data_slice]))

\* MessageManager::get_outgoing_slice; the Some it returns carries the SliceMeta
\* and the bytes written to data_slice.
get_outgoing_slice(self) ==
    IF self.out_state # "MessageBeingSent" THEN Returns(self, None)
    ELSE IF ~self.out_message.some THEN Returns(self, None)
    ELSE LET out == get_slice_master(self.out_message.val)
         IN IF out.meta.last
            THEN Returns([self EXCEPT !.out_message = None, !.out_state = "MessageSent"],
                         Some([meta |-> out.meta, data_slice |-> out.data_slice]))
            ELSE Returns([self EXCEPT !.out_message = Some(out.self)],
                         Some([meta |-> out.meta, data_slice |-> out.data_slice]))

\* MessageManager::ack_slice
ack_slice(self) ==
    IF self.out_state = "MessageBeingSent" THEN Returns(self, TRUE)
    ELSE IF self.out_state = "MessageSent"
    THEN Returns([self EXCEPT !.out_state = "MessageAcknowledged"], FALSE)
    ELSE Returns(self, FALSE)

\* Error (satellite) values
SubkernelIoError == [kind |-> "SubkernelIoError"]
KernelNotFound == [kind |-> "KernelNotFound"]
NoMessageError == [kind |-> "NoMessage"]
AwaitingMessage == [kind |-> "AwaitingMessage"]
InvalidPointer == [kind |-> "InvalidPointer"]
Unexpected == [kind |-> "Unexpected"]
LoadError == [kind |-> "Load"]
KernelException(exception) == [kind |-> "KernelException", exception |-> exception]

\* MessageManager::accept_outgoing; encoded is what rpc::send_args writes after
\* the first three bytes (its first byte is overwritten with count), encodes
\* whether send_args succeeds.
accept_outgoing(self, count, encoded, encodes) ==
    IF ~encodes THEN Returns(self, Err(SubkernelIoError))
    ELSE Returns([self EXCEPT
                    !.out_message = Some(SliceableNew(<<count>> \o Tail(encoded))),
                    !.out_state = "MessageReady"],
                 Ok(Unit))

\* MessageManager::get_incoming
get_incoming(self) ==
    IF self.in_queue = <<>> THEN Returns(self, None)
    ELSE Returns([self EXCEPT !.in_queue = Tail(@)], Some(Head(self.in_queue)))

\* --------------------------------------------------- satellite: Manager
\* The Manager with the hardware it drives, as one value: the methods below are
\* functions of it.
Self ==
    [kernels |-> kernels, current_id |-> current_id, session |-> session,
     cache |-> cache, last_finished |-> last_finished, reset |-> reset,
     cricon |-> cricon, mailbox |-> mailbox]

\* What a method leaves and returns, and the messages it has sent to the
\* auxiliary processor with kern_send.
Did(self, ret, sent) == [self |-> self, ret |-> ret, sent |-> sent]

\* kernel_cpu::stop: hold the processor in reset, give the RTIO arbiter to
\* DRTIO, mailbox::acknowledge()
kernel_cpu_stop(self) ==
    [self EXCEPT !.reset = 1, !.cricon = "Drtio", !.mailbox = NoRequest]

\* kernel_cpu::start, after its check that the processor is in reset
kernel_cpu_start(self) == [kernel_cpu_stop(self) EXCEPT !.reset = 0]

\* Session::running
running(sess) == sess.kernel_state.tag \in {"Running", "MsgAwait", "MsgSending"}
\* Manager::is_running
is_running(self) == running(self.session)

\* Cache::get lends the kernel a value of the cache; Cache::unborrow takes
\* back everything lent.
Cache_get(c) == [c EXCEPT !.borrowed = TRUE]
Cache_unborrow(c) == [c EXCEPT !.borrowed = FALSE]

\* Manager::stop that leaves the cache's borrows in place.
Manager_stop_keeps_borrows(self) ==
    [kernel_cpu_stop(self) EXCEPT !.session.kernel_state = Absent]

\* Manager::stop
Manager_stop(self) ==
    [kernel_cpu_stop(self) EXCEPT !.session.kernel_state = Absent,
                                  !.cache = Cache_unborrow(@)]

\* struct KernelLibrary
KernelLibrary(library, complete) == [library |-> library, complete |-> complete]

\* Manager::add that extends whatever entry there is, complete or not.
Manager_add_extends(self, id, lastf, data, data_len) ==
    LET library == IF id \in DOMAIN self.kernels
                   THEN self.kernels[id].library ELSE <<>>
    IN Did([self EXCEPT !.kernels =
               Insert(@, id, KernelLibrary(library \o Slice(data, 0, data_len), lastf))],
           Ok(Unit), <<>>)

\* Manager::add
Manager_add(self, id, lastf, data, data_len) ==
    LET library == IF id \in DOMAIN self.kernels /\ ~self.kernels[id].complete
                   THEN self.kernels[id].library ELSE <<>>
    IN Did([self EXCEPT !.kernels =
               Insert(@, id, KernelLibrary(library \o Slice(data, 0, data_len), lastf))],
           Ok(Unit), <<>>)

\* Requests and replies of the auxiliary processor (kernel_proto::Message)
LoadRequest(library) == [kind |-> "LoadRequest", library |-> library]
LoadReply(ok) == [kind |-> "LoadReply", ok |-> ok]
RunFinished == [kind |-> "RunFinished"]
RunException(exception, writes) ==
    [kind |-> "RunException", exception |-> exception, writes |-> writes]
SubkernelMsgSend(count, encoded, encodes) ==
    [kind |-> "SubkernelMsgSend", count |-> count, encoded |-> encoded,
     encodes |-> encodes]
SubkernelMsgRecvRequest(timeout) == [kind |-> "SubkernelMsgRecvRequest", timeout |-> timeout]
SubkernelMsgRecvReply(status, count) ==
    [kind |-> "SubkernelMsgRecvReply", status |-> status, count |-> count]
CacheGetRequest == [kind |-> "CacheGetRequest"]
CacheGetReply == [kind |-> "CacheGetReply"]
\* a request answered on the spot: Log, LogSlice, RpcFlush, CachePutRequest and
\* the requests of process_kern_hwreq
Answered == [kind |-> "Answered"]
\* a request no arm of process_kern_message takes
OtherRequest == [kind |-> "Other"]
\* a mailbox value that kernel_cpu::validate rejects
InvalidRequest == [kind |-> "Invalid"]

\* Manager::load that reloads an image that is already loaded.
Manager_load_reloads(self, id, reply) ==
    IF id \notin DOMAIN self.kernels \/ ~self.kernels[id].complete
    THEN Did(self, Err(KernelNotFound), <<>>)
    ELSE LET fresh == [self EXCEPT !.current_id = id, !.session = SessionNew]
             started == [kernel_cpu_start(Manager_stop(fresh)) EXCEPT !.mailbox = reply]
             sent == <<LoadRequest(self.kernels[id].library)>>
         IN IF reply = LoadReply(TRUE)
            THEN Did([started EXCEPT !.session.kernel_state = Loaded], Ok(Unit), sent)
            ELSE Did(started, Err(Unexpected), sent)

\* Manager::load; reply is what the mailbox holds when kern_recv reads it after
\* the LoadRequest has been taken.
Manager_load(self, id, reply) ==
    IF self.current_id = id /\ self.session.kernel_state = Loaded
    THEN Did(self, Ok(Unit), <<>>)
    ELSE IF id \notin DOMAIN self.kernels \/ ~self.kernels[id].complete
    THEN Did(self, Err(KernelNotFound), <<>>)
    ELSE LET fresh == [self EXCEPT !.current_id = id, !.session = SessionNew]
             started == [kernel_cpu_start(Manager_stop(fresh)) EXCEPT !.mailbox = reply]
             sent == <<LoadRequest(self.kernels[id].library)>>
         IN IF reply = NoRequest THEN Did(started, Err(NoMessageError), sent)
            ELSE IF reply = InvalidRequest THEN Did(started, Err(InvalidPointer), sent)
            ELSE IF reply = LoadReply(TRUE)
            THEN Did([started EXCEPT !.session.kernel_state = Loaded], Ok(Unit), sent)
            ELSE IF reply.kind = "LoadReply"
            THEN Did(kernel_cpu_stop(started), Err(LoadError), sent)
            ELSE Did(started, Err(Unexpected), sent)

\* Manager::run that leaves the arbiter alone.
Manager_run_keeps_arbiter(self, id, reply) ==
    LET loaded == IF self.session.kernel_state # Loaded \/ self.current_id # id
                  THEN Manager_load(self, id, reply)
                  ELSE Did(self, Ok(Unit), <<>>)
    IN IF loaded.ret.tag # "Ok" THEN loaded
       ELSE Did([loaded.self EXCEPT !.session.kernel_state = Running,
                                    !.mailbox = NoRequest],
                Ok(Unit), loaded.sent)

\* Manager::run
Manager_run(self, id, reply) ==
    LET loaded == IF self.session.kernel_state # Loaded \/ self.current_id # id
                  THEN Manager_load(self, id, reply)
                  ELSE Did(self, Ok(Unit), <<>>)
    IN IF loaded.ret.tag # "Ok" THEN loaded
       ELSE Did([loaded.self EXCEPT !.session.kernel_state = Running,
                                    !.cricon = "Kernel",
                                    !.mailbox = NoRequest],
                Ok(Unit), loaded.sent)

\* Manager::message_handle_incoming (no panic case, see handle_incoming_panics)
Manager_message_handle_incoming(self, lastf, length, data) ==
    IF ~is_running(self) THEN self
    ELSE [self EXCEPT !.session.messages = handle_incoming(@, lastf, length, data)]

\* Manager::message_get_slice
Manager_message_get_slice(self) ==
    IF ~is_running(self) THEN Did(self, None, <<>>)
    ELSE LET out == get_outgoing_slice(self.session.messages)
         IN Did([self EXCEPT !.session.messages = out.self], out.ret, <<>>)

\* Manager::message_ack_slice
Manager_message_ack_slice(self) ==
    IF ~is_running(self) THEN Did(self, FALSE, <<>>)
    ELSE LET out == ack_slice(self.session.messages)
         IN Did([self EXCEPT !.session.messages = out.self], out.ret, <<>>)

\* Manager::message_is_ready
Manager_message_is_ready(self) ==
    LET out == is_outgoing_ready(self.session.messages)
    IN Did([self EXCEPT !.session.messages = out.self], out.ret, <<>>)

\* struct SubkernelFinished (satellite)
SatSubkernelFinished(id, with_exception) == [id |-> id, with_exception |-> with_exception]

\* get_last_finished that leaves the record in place (clone in place of take).
Manager_get_last_finished_peeks(self) == Did(self, self.last_finished, <<>>)

\* Manager::get_last_finished
Manager_get_last_finished(self) ==
    Did([self EXCEPT !.last_finished = None], self.last_finished, <<>>)

\* Manager::exception_get_slice
Manager_exception_get_slice(self) ==
    IF self.session.last_exception.some
    THEN LET out == get_slice_sat(self.session.last_exception.val)
         IN Did([self EXCEPT !.session.last_exception = Some(out.self)],
                [meta |-> out.meta, data_slice |-> out.data_slice], <<>>)
    ELSE Did(self, [meta |-> SliceMeta(0, TRUE), data_slice |-> <<>>], <<>>)

\* Manager::runtime_exception: the exception data written for an internal
\* error (exception id 11, SubkernelError)
runtime_exception(self, cause) ==
    [self EXCEPT !.session.last_exception = Some(SliceableNew(<<11>>))]

\* process_external_messages that answers the kernel's send as soon as the last
\* slice has been fetched.
process_external_messages_early_ack(self, now, pass) ==
    LET state == self.session.kernel_state
    IN IF state = MsgSending
       THEN IF self.session.messages.out_state \in {"MessageSent", "MessageAcknowledged"}
            THEN Did([self EXCEPT !.session.messages.out_state = "NoMessage",
                                  !.session.kernel_state = Running,
                                  !.mailbox = NoRequest],
                     Ok(Unit), <<>>)
            ELSE Did(self, Err(AwaitingMessage), <<>>)
       ELSE IF state.tag = "MsgAwait" THEN Did(self, Err(AwaitingMessage), <<>>)
       ELSE Did(self, Ok(Unit), <<>>)

\* process_external_messages that looks for a message before it looks at the
\* deadline.
process_external_messages_message_first(self, now, pass) ==
    LET state == self.session.kernel_state
        got == get_incoming(self.session.messages)
    IN IF state.tag # "MsgAwait" THEN Did(self, Ok(Unit), <<>>)
       ELSE IF got.ret.some
       THEN Did([self EXCEPT !.session.messages = got.self,
                             !.session.kernel_state = Running,
                             !.mailbox = NoRequest],
                pass, <<SubkernelMsgRecvReply("NoError", got.ret.val.count)>>)
       ELSE IF now > state.max_time
       THEN Did([self EXCEPT !.session.kernel_state = Running, !.mailbox = NoRequest],
                Ok(Unit), <<SubkernelMsgRecvReply("Timeout", 0)>>)
       ELSE Did(self, Err(AwaitingMessage), <<>>)

\* process_external_messages that never looks at the deadline of MsgAwait.
process_external_messages_no_deadline(self, now, pass) ==
    LET state == self.session.kernel_state
    IN IF state.tag = "MsgAwait"
       THEN LET got == get_incoming(self.session.messages)
            IN IF got.ret.some
               THEN Did([self EXCEPT !.session.messages = got.self,
                                     !.session.kernel_state = Running,
                                     !.mailbox = NoRequest],
                        pass,
                        <<SubkernelMsgRecvReply("NoError", got.ret.val.count)>>)
               ELSE Did(self, Err(AwaitingMessage), <<>>)
       ELSE IF state = MsgSending
       THEN LET acked == was_message_acknowledged(self.session.messages)
            IN IF acked.ret
               THEN Did([self EXCEPT !.session.messages = acked.self,
                                     !.session.kernel_state = Running,
                                     !.mailbox = NoRequest],
                        Ok(Unit), <<>>)
               ELSE Did(self, Err(AwaitingMessage), <<>>)
       ELSE Did(self, Ok(Unit), <<>>)

\* Manager::process_external_messages (phase A of a tick); now is
\* clock::get_ms(), pass is what pass_message_to_kernel returns when it is
\* called.
process_external_messages(self, now, pass) ==
    LET state == self.session.kernel_state
    IN IF state.tag = "MsgAwait"
       THEN IF now > state.max_time
            THEN Did([self EXCEPT !.session.kernel_state = Running,
                                  !.mailbox = NoRequest],
                     Ok(Unit), <<SubkernelMsgRecvReply("Timeout", 0)>>)
            ELSE LET got == get_incoming(self.session.messages)
                 IN IF got.ret.some
                    THEN Did([self EXCEPT !.session.messages = got.self,
                                          !.session.kernel_state = Running,
                                          !.mailbox = NoRequest],
                             pass,
                             <<SubkernelMsgRecvReply("NoError", got.ret.val.count)>>)
                    ELSE Did(self, Err(AwaitingMessage), <<>>)
       ELSE IF state = MsgSending
       THEN LET acked == was_message_acknowledged(self.session.messages)
            IN IF acked.ret
               THEN Did([self EXCEPT !.session.messages = acked.self,
                                     !.session.kernel_state = Running,
                                     !.mailbox = NoRequest],
                        Ok(Unit), <<>>)
               ELSE Did(self, Err(AwaitingMessage), <<>>)
       ELSE Did(self, Ok(Unit), <<>>)

\* Manager::process_kern_message (phase B of a tick): kern_recv and the match
\* on the request.
process_kern_message(self, now) ==
    LET request == self.mailbox
        state == self.session.kernel_state
        stopped == [kernel_cpu_stop(self) EXCEPT !.session.kernel_state = Absent,
                                                 !.cache = Cache_unborrow(@)]
    IN IF request = NoRequest THEN Did(self, Err(NoMessageError), <<>>)
       ELSE IF request = InvalidRequest THEN Did(self, Err(InvalidPointer), <<>>)
       ELSE IF request.kind = "LoadReply" /\ state = Loaded THEN Did(self, Ok(None), <<>>)
       ELSE IF state # Running THEN Did(self, Err(Unexpected), <<>>)
       ELSE IF request = Answered
       THEN Did([self EXCEPT !.mailbox = NoRequest], Ok(None), <<>>)
       ELSE IF request = CacheGetRequest
       THEN Did([self EXCEPT !.cache = Cache_get(@), !.mailbox = NoRequest],
                Ok(None), <<CacheGetReply>>)
       ELSE IF request = RunFinished THEN Did(stopped, Ok(Some(FALSE)), <<>>)
       ELSE IF request.kind = "RunException"
       THEN IF request.writes
            THEN Did([stopped EXCEPT !.session.last_exception =
                                        Some(SliceableNew(request.exception))],
                     Ok(Some(TRUE)), <<>>)
            ELSE Did(stopped, Err(SubkernelIoError), <<>>)
       ELSE IF request.kind = "SubkernelMsgSend"
       THEN LET accepted == accept_outgoing(self.session.messages, request.count,
                                            request.encoded, request.encodes)
            IN IF accepted.ret.tag = "Ok"
               THEN Did([self EXCEPT !.session.messages = accepted.self,
                                     !.session.kernel_state = MsgSending],
                        Ok(None), <<>>)
               ELSE Did(self, accepted.ret, <<>>)
       ELSE IF request.kind = "SubkernelMsgRecvRequest"
       THEN Did([self EXCEPT !.session.kernel_state = MsgAwait(now + request.timeout)],
                Ok(None), <<>>)
       ELSE Did(self, Err(Unexpected), <<>>)

\* process_kern_requests, lines 485, 491, 497, 504: a run has ended
finished(self, with_exception) ==
    [self EXCEPT !.last_finished =
                    Some(SatSubkernelFinished(self.current_id, with_exception))]
\* An internal error that stops the run and reports nothing.
failed_unreported(self, e) == Manager_stop(self)

\* process_kern_requests, lines 487-492 and 500-505: an internal error ends the
\* run
failed(self, e) == finished(runtime_exception(Manager_stop(self), e), TRUE)

\* A phase that was not run.
NotRun == [tag |-> "NotRun"]

\* Manager::process_kern_requests: the Manager it leaves (self), the one that
\* process_external_messages returns (after_a) and the one that
\* process_kern_message is called on (mid), what the two phases returned and what was sent
\* to the auxiliary processor.  posted is what the auxiliary processor, when it
\* is released and not waiting for an answer, has put in the mailbox by the
\* time kern_recv reads it.
process_kern_requests(self, now, pass, posted) ==
    IF ~is_running(self)
    THEN [self |-> self, after_a |-> self, mid |-> self, a |-> NotRun, b |-> NotRun,
          sent |-> <<>>]
    ELSE LET a == process_external_messages(self, now, pass)
         IN IF a.ret.tag = "Err" /\ a.ret.err = AwaitingMessage
            THEN [self |-> a.self, after_a |-> a.self, mid |-> a.self, a |-> a.ret,
                  b |-> NotRun, sent |-> a.sent]
            ELSE LET afterA ==
                         IF a.ret.tag = "Ok" THEN a.self
                         ELSE IF a.ret.err.kind = "KernelException"
                         THEN finished([Manager_stop(a.self) EXCEPT
                                          !.session.last_exception =
                                              Some(a.ret.err.exception)],
                                       TRUE)
                         ELSE failed(a.self, a.ret.err)
                     received ==
                         IF afterA.reset = 0 /\ afterA.mailbox = NoRequest
                         THEN [afterA EXCEPT !.mailbox = posted] ELSE afterA
                     b == process_kern_message(received, now)
                     afterB ==
                         IF b.ret.tag = "Ok"
                         THEN IF b.ret.val.some
                              THEN finished(b.self, b.ret.val.val) ELSE b.self
                         ELSE IF b.ret.err = NoMessageError THEN b.self
                         ELSE failed(b.self, b.ret.err)
                 IN [self |-> afterB, after_a |-> a.self, mid |-> received,
                     a |-> a.ret, b |-> b.ret, sent |-> a.sent \o b.sent]

\* impl Drop for Manager
Manager_drop(self) == kernel_cpu_stop([self EXCEPT !.cricon = "Drtio"])

\* ------------------------------------------- satellite: Manager, actions
\* A call of a Manager method assigns the Manager's fields and the hardware
\* registers it has written.
Commit(self) ==
    /\ kernels' = self.kernels
    /\ current_id' = self.current_id
    /\ session' = self.session
    /\ cache' = self.cache
    /\ last_finished' = self.last_finished
    /\ reset' = self.reset
    /\ cricon' = self.cricon
    /\ mailbox' = self.mailbox

\* The Manager exists: it has not been dropped and nothing has panicked.
ManagerReady == ~panicked /\ ~dropped

ManagerOp(op, args, out) ==
    /\ ManagerReady
    /\ Commit(out.self)
    /\ last' = [op |-> op, args |-> args, ret |-> out.ret, sent |-> out.sent]
    /\ UNCHANGED <<mastervars, clock, panicked, sliceable, sliced, dropped>>

\* Most messages waiting in a session's in_queue.
MaxQueue == 1
\* What load's kern_recv may find in the mailbox.
LoadReplies == {LoadReply(TRUE), LoadReply(FALSE), NoRequest, InvalidRequest, OtherRequest}
\* What rpc::send_args may write for a message of the kernel: one that fits one
\* slice and one that takes two.
OutPayloads == {<<0, 5>>, [i \in 1..(MASTER_PAYLOAD_MAX_SIZE + 1) |-> i + 4]}
\* What the auxiliary processor may post.
Requests ==
    {Answered, CacheGetRequest, RunFinished, OtherRequest, InvalidRequest}
        \cup {RunException(<<9>>, w) : w \in BOOLEAN}
        \cup {SubkernelMsgSend(1, e, TRUE) : e \in OutPayloads}
        \cup {SubkernelMsgSend(1, <<0, 5>>, FALSE)}
        \cup {SubkernelMsgRecvRequest(t) : t \in 0..MaxTimeout}
\* What pass_message_to_kernel may return.
PassOutcomes ==
    {Ok(Unit), Err(NoMessageError), Err(Unexpected), Err(SubkernelIoError),
     Err(KernelException(SliceableNew(<<9>>)))}

SatAdd(id, lastf, data, data_len) ==
    ManagerOp("add", <<id, lastf, data, data_len>>,
              Manager_add(Self, id, lastf, data, data_len))

\* A chunk of an image arrives in a frame of the link.
ChunkPayload(n) == <<10 * n + 1, 10 * n + 2>>
SatAddChunk(id, lastf, data_len) ==
    /\ nframes < MaxFrames
    /\ nframes' = nframes + 1
    /\ ManagerReady
    /\ Commit(Manager_add(Self, id, lastf, ChunkPayload(nframes + 1), data_len).self)
    /\ last' = [op |-> "add",
                args |-> <<id, lastf, ChunkPayload(nframes + 1), data_len>>,
                ret |-> Ok(Unit), sent |-> <<>>]
    /\ UNCHANGED <<SUBKERNELS, MESSAGE_QUEUE, CURRENT_MESSAGES, pending, pc, clock,
                   panicked, sliceable, sliced, dropped>>

\* The call sends a LoadRequest, so that the reply is read.
Requested(out) == out.sent # <<>>

SatLoad(id, reply) ==
    /\ reply # LoadReply(TRUE) => Requested(Manager_load(Self, id, reply))
    /\ ManagerReady
    /\ Commit(Manager_load(Self, id, reply).self)
    /\ last' = [op |-> "load", args |-> <<id>>, reply |-> reply,
                ret |-> Manager_load(Self, id, reply).ret,
                sent |-> Manager_load(Self, id, reply).sent]
    /\ UNCHANGED <<mastervars, clock, panicked, sliceable, sliced, dropped>>

SatRun(id, reply) ==
    /\ reply # LoadReply(TRUE) => Requested(Manager_run(Self, id, reply))
    /\ ManagerOp("run", <<id>>, Manager_run(Self, id, reply))

SatStop == ManagerOp("stop", <<>>, Did(Manager_stop(Self), Unit, <<>>))

SatMessageHandleIncoming(lastf, length, data) ==
    /\ ManagerReady
    /\ Len(session.messages.in_queue) < MaxQueue
    /\ IF is_running(Self) /\ handle_incoming_panics(session.messages, length)
       THEN /\ panicked' = TRUE
            /\ last' = [op |-> "message_handle_incoming", args |-> <<lastf, length>>,
                        ret |-> Panic, sent |-> <<>>]
            /\ UNCHANGED managervars
       ELSE /\ Commit(Manager_message_handle_incoming(Self, lastf, length, data))
            /\ last' = [op |-> "message_handle_incoming", args |-> <<lastf, length>>,
                        ret |-> Unit, sent |-> <<>>]
            /\ UNCHANGED <<panicked, dropped>>
    /\ UNCHANGED <<mastervars, clock, sliceable, sliced>>

SatMessageGetSlice == ManagerOp("message_get_slice", <<>>, Manager_message_get_slice(Self))

SatMessageAckSlice == ManagerOp("message_ack_slice", <<>>, Manager_message_ack_slice(Self))

SatMessageIsReady == ManagerOp("message_is_ready", <<>>, Manager_message_is_ready(Self))

SatGetLastFinished == ManagerOp("get_last_finished", <<>>, Manager_get_last_finished(Self))

SatExceptionGetSlice ==
    ManagerOp("exception_get_slice", <<>>, Manager_exception_get_slice(Self))

\* The tick's phase A hands a message to the kernel.
PassesMessage(self, now) ==
    /\ self.session.kernel_state.tag = "MsgAwait"
    /\ now <= self.session.kernel_state.max_time
    /\ self.session.messages.in_queue # <<>>

\* One tick of the satellite's main loop.
SatProcessKernRequests(pass, posted) ==
    LET out == process_kern_requests(Self, clock, pass, posted)
    IN /\ ManagerReady
       /\ pass # Ok(Unit) => PassesMessage(Self, clock)
       /\ posted # NoRequest => is_running(Self)
       /\ Commit(out.self)
       /\ last' = [op |-> "process_kern_requests", args |-> <<>>,
                   was |-> session.kernel_state, borrowed |-> cache.borrowed,
                   a_state |-> out.after_a.session.kernel_state,
                   a_queue |-> out.after_a.session.messages.in_queue,
                   a_mailbox |-> out.after_a.mailbox,
                   request |-> out.mid.mailbox, a |-> out.a, b |-> out.b,
                   out_mid |-> out.mid.session.messages.out_state,
                   ret |-> Unit, sent |-> out.sent]
       /\ UNCHANGED <<mastervars, clock, panicked, sliceable, sliced, dropped>>

SatDrop ==
    /\ ManagerReady
    /\ Commit(Manager_drop(Self))
    /\ dropped' = TRUE
    /\ last' = [op |-> "drop", args |-> <<>>, ret |-> Unit, sent |-> <<>>]
    /\ UNCHANGED <<mastervars, clock, panicked, sliceable, sliced>>

\* The satellite: the link layer and the main loop calling the Manager while
\* the auxiliary processor runs the kernel.
SatNext ==
    \/ \E id \in Ids : SatAdd(id, TRUE, <<1>>, 1)
    \/ \E id \in Ids, reply \in LoadReplies : SatLoad(id, reply)
    \/ \E id \in Ids, reply \in LoadReplies : SatRun(id, reply)
    \/ SatStop
    \/ SatMessageHandleIncoming(TRUE, MASTER_PAYLOAD_MAX_SIZE, FramePayload(1))
    \/ SatMessageGetSlice
    \/ SatMessageAckSlice
    \/ SatMessageIsReady
    \/ SatGetLastFinished
    \/ SatExceptionGetSlice
    \/ \E pass \in PassOutcomes, posted \in Requests \cup {NoRequest} :
          SatProcessKernRequests(pass, posted)
    \/ SatDrop
    \/ Tick

SatSpec == Init /\ [][SatNext]_vars

\* One session: a kernel is run and exchanges messages with the master until
\* the run ends.
SessionNext ==
    \/ SatAdd(7, TRUE, <<1>>, 1)
    \/ SatRun(7, LoadReply(TRUE))
    \/ SatMessageHandleIncoming(TRUE, MASTER_PAYLOAD_MAX_SIZE, FramePayload(clock + 1))
    \/ SatMessageGetSlice
    \/ SatMessageAckSlice
    \/ SatMessageIsReady
    \/ \E pass \in PassOutcomes, posted \in Requests \cup {NoRequest} :
          SatProcessKernRequests(pass, posted)
    \/ Tick

SessionSpec == Init /\ [][SessionNext]_vars

\* A frame handed both to the master's message_handle_incoming, as a frame of
\* subkernel id, and to the satellite's Manager::message_handle_incoming.
LinkFrame(id, lastf, length, data) ==
    LET registered == id \in DOMAIN SUBKERNELS
        master_panics == registered /\ id \notin DOMAIN CURRENT_MESSAGES /\ length < 2
        sat_panics == is_running(Self) /\ handle_incoming_panics(session.messages, length)
        out == message_handle_incoming_body(id, lastf, length, data)
    IN /\ LinkReady
       /\ ManagerReady
       /\ nframes < MaxFrames
       /\ nframes' = nframes + 1
       /\ panicked' = (master_panics \/ sat_panics)
       /\ IF registered /\ ~master_panics
          THEN MESSAGE_QUEUE' = out.queue /\ CURRENT_MESSAGES' = out.current
          ELSE UNCHANGED <<MESSAGE_QUEUE, CURRENT_MESSAGES>>
       /\ IF sat_panics
          THEN UNCHANGED managervars
          ELSE /\ Commit(Manager_message_handle_incoming(Self, lastf, length, data))
               /\ UNCHANGED dropped
       /\ last' = [op |-> "link_frame", id |-> id, args |-> Frame(lastf, length, data),
                   master_panics |-> master_panics, sat_panics |-> sat_panics,
                   ret |-> Unit]
       /\ UNCHANGED <<SUBKERNELS, pending, clock, pc, sliceable, sliced>>

\* Inbound assembly on both sides: the master registers a subkernel, the
\* satellite runs it, and the same frames are handed to both.
InboundNext ==
    \/ add_subkernel(7, 1, <<1>>)
    \/ SatAdd(7, TRUE, <<1>>, 1)
    \/ SatRun(7, LoadReply(TRUE))
    \/ SatStop
    \/ \E lastf \in BOOLEAN, length \in 0..MASTER_PAYLOAD_MAX_SIZE :
          LinkFrame(7, lastf, length, FramePayload(nframes + 1))

InboundSpec == Init /\ [][InboundNext]_vars

\* The kernel store: images arriving in chunks while kernels are loaded, run
\* and stopped.
StoreNext ==
    \/ \E id \in Ids, lastf \in BOOLEAN, data_len \in 1..2 :
          SatAddChunk(id, lastf, data_len)
    \/ \E id \in Ids, reply \in LoadReplies : SatLoad(id, reply)
    \/ \E id \in Ids : SatRun(id, LoadReply(TRUE))
    \/ SatStop
    \/ \E posted \in {RunFinished, RunException(<<9>>, TRUE)} :
          SatProcessKernRequests(Ok(Unit), posted)

StoreSpec == Init /\ [][StoreNext]_vars

\* The main loop of the satellite on one session, with the loop calling
\* process_kern_requests again and again and the clock advancing.  The clock
\* is capped, so the kernel asks for a message only with a deadline the clock
\* can pass.
PollKernRequests(pass, posted) ==
    /\ posted.kind = "SubkernelMsgRecvRequest" => clock + posted.timeout < MaxClock
    /\ SatProcessKernRequests(pass, posted)

\* What the kernel posts while it runs and waits for messages, and what
\* handing a message over to it may return.
LoopRequests ==
    {NoRequest, RunFinished} \cup {SubkernelMsgRecvRequest(t) : t \in 0..MaxTimeout}
LoopPassOutcomes == {Ok(Unit), Err(NoMessageError), Err(Unexpected)}

MainLoop ==
    \E pass \in LoopPassOutcomes, posted \in LoopRequests :
        PollKernRequests(pass, posted)

LoopNext ==
    \/ SatAdd(7, TRUE, <<1>>, 1)
    \/ SatRun(7, LoadReply(TRUE))
    \/ SatStop
    \/ SatMessageHandleIncoming(TRUE, MASTER_PAYLOAD_MAX_SIZE, FramePayload(1))
    \/ MainLoop
    \/ Tick

LoopSpec ==
    /\ Init /\ [][LoopNext]_vars
    /\ WF_vars(MainLoop)
    /\ WF_vars(Tick)

\* ------------------------------------------------------------------ claims
\* `last` is the step that led to the current state, so in an action formula
\* last' names the step being taken and last the one before it.
StepOf(op) == last'.op = op /\ last'.ret # Panic

\* C1 as the claim states it: every change of an entry's state is an edge of the
\* diagram of section 3, made by the operation the diagram names.  (An entry
\* that add_subkernel has just replaced is a new entry.)
DiagramEdge(old, new, step) ==
    \/ old = NotLoaded /\ new = Uploaded /\ step.op = "upload"
    \/ old = Uploaded /\ new = Running /\ step.op = "load" /\ step.args = <<TRUE>>
    \/ /\ old = Running /\ new \in {Finished("Ok"), Finished("Exception")}
       /\ step.op = "subkernel_finished"
    \/ /\ old = Running /\ new = Finished("CommLost")
       /\ step.op = "destination_changed" /\ ~step.args[2]
    \/ /\ old = Uploaded /\ new = NotLoaded
       /\ step.op = "destination_changed" /\ ~step.args[2]
    \/ /\ old.tag = "Finished" /\ new = Uploaded
       /\ step.op \in {"retrieve_finish_status", "await_finish"}

C1_OnlyDiagramEdges ==
    [][\A id \in (DOMAIN SUBKERNELS) \cap (DOMAIN SUBKERNELS') :
          (/\ SUBKERNELS'[id].state # SUBKERNELS[id].state
           /\ ~(last'.op = "add_subkernel" /\ last'.id = id))
          => DiagramEdge(SUBKERNELS[id].state, SUBKERNELS'[id].state, last')]_vars

\* C1 amended: every change of an entry's state is one of the edges the code
\* has: any state -> NotLoaded by add_subkernel of that id; any state ->
\* Uploaded by a successful upload of that id or by destination_changed(up) of
\* its destination; Uploaded -> Running by load(run = true); any state ->
\* Finished{Ok|Exception} by subkernel_finished; Running -> Finished{CommLost}
\* and any other state -> NotLoaded by destination_changed(down) of its
\* destination; Finished -> Uploaded by retrieve_finish_status (also at the end
\* of await_finish).
CodeEdge(id, old, new, dest, step) ==
    \/ step.op = "add_subkernel" /\ step.id = id /\ new = NotLoaded
    \/ step.op = "upload" /\ step.id = id /\ step.ret = Ok(Unit) /\ new = Uploaded
    \/ /\ step.op = "load" /\ step.id = id /\ step.args = <<TRUE>> /\ step.ret = Ok(Unit)
       /\ old = Uploaded /\ new = Running
    \/ /\ step.op = "subkernel_finished" /\ step.id = id
       /\ new = Finished(IF step.args[1] THEN "Exception" ELSE "Ok")
    \/ /\ step.op = "destination_changed" /\ step.args = <<dest, FALSE>>
       /\ \/ old = Running /\ new = Finished("CommLost")
          \/ old # Running /\ new = NotLoaded
    \/ step.op = "destination_changed" /\ step.args = <<dest, TRUE>> /\ new = Uploaded
    \/ /\ step.op \in {"retrieve_finish_status", "await_finish"} /\ step.id = id
       /\ old.tag = "Finished" /\ new = Uploaded

C1_OnlyCodeEdges ==
    [][\A id \in (DOMAIN SUBKERNELS) \cap (DOMAIN SUBKERNELS') :
          SUBKERNELS'[id].state # SUBKERNELS[id].state
          => CodeEdge(id, SUBKERNELS[id].state, SUBKERNELS'[id].state,
                      SUBKERNELS[id].destination, last')]_vars

\* An await_finish has returned a lost link: the entry went NotLoaded ->
\* Uploaded -> Running -> Finished{CommLost} -> Uploaded.
C1_Witness ==
    /\ last.op = "await_finish" /\ last.ret = Ok(SubkernelFinished(last.id, TRUE, None))
    /\ SUBKERNELS[last.id].state = Uploaded

\* C2: load returns IncorrectState, asks nothing of the transport and changes
\* nothing unless the entry is Uploaded; on an Uploaded entry it calls
\* Transport.load once, and the entry becomes Running when that succeeds and
\* run is set, stays Uploaded when it succeeds and run is not set, and stays
\* Uploaded with the error returned when it fails.
C2_Load ==
    [][StepOf("load") =>
        LET id == last'.id
            run == last'.args[1]
            calls == last'.calls
        IN IF SUBKERNELS[id].state # Uploaded
           THEN /\ last'.ret = Err(IncorrectState)
                /\ calls = <<>>
                /\ SUBKERNELS' = SUBKERNELS
           ELSE /\ Len(calls) = 1
                /\ calls[1].fn = "load"
                /\ calls[1].args = <<id, SUBKERNELS[id].destination, run>>
                /\ IF calls[1].answer.tag = "Ok"
                   THEN /\ last'.ret = Ok(Unit)
                        /\ SUBKERNELS' = SetState(id, IF run THEN Running ELSE Uploaded)
                   ELSE /\ last'.ret = Err(DrtioError(calls[1].answer.err))
                        /\ SUBKERNELS' = SUBKERNELS]_vars

\* load(id, run = true) has succeeded and the entry is Running.
C2_Witness ==
    /\ last.op = "load" /\ last.ret = Ok(Unit) /\ last.args = <<TRUE>>
    /\ SUBKERNELS[last.id].state = Running

\* C3 as the claim states it: on a Finished{status} entry retrieve_finish_status
\* returns {id, comm_lost = (status = CommLost), exception = Some(bytes of
\* Transport.retrieve_exception) iff status = Exception} and leaves Uploaded; a
\* second call right after it returns IncorrectState; on any other entry it
\* returns IncorrectState and changes nothing.
FinishRecordOf(id, status, calls, ret) ==
    /\ ret.tag = "Ok"
    /\ ret.val.id = id
    /\ ret.val.comm_lost = (status = "CommLost")
    /\ ret.val.exception.some = (status = "Exception")
    /\ IF status = "Exception"
       THEN /\ Len(calls) = 1 /\ calls[1].fn = "retrieve_exception"
            /\ calls[1].answer.tag = "Ok"
            /\ ret.val.exception = Some(calls[1].answer.val)
       ELSE calls = <<>>

SecondRetrieve ==
    /\ last.op = "retrieve_finish_status" /\ last'.op = "retrieve_finish_status"
    /\ last.id = last'.id

C3_RetrieveFinishStatus ==
    [][StepOf("retrieve_finish_status") =>
        LET id == last'.id
            state == SUBKERNELS[id].state
        IN /\ IF state.tag = "Finished"
              THEN /\ FinishRecordOf(id, state.status, last'.calls, last'.ret)
                   /\ SUBKERNELS' = SetState(id, Uploaded)
              ELSE /\ last'.ret = Err(IncorrectState)
                   /\ SUBKERNELS' = SUBKERNELS
           /\ SecondRetrieve => last'.ret = Err(IncorrectState)]_vars

\* C3 amended: as C3, except that on a Finished{Exception} entry whose
\* Transport.retrieve_exception fails the call returns that error as DrtioError;
\* the entry is left Uploaded in that case too.
C3_RetrieveFinishStatusOrError ==
    [][StepOf("retrieve_finish_status") =>
        LET id == last'.id
            state == SUBKERNELS[id].state
            calls == last'.calls
        IN /\ IF state.tag = "Finished"
              THEN /\ IF state.status = "Exception" /\ calls[1].answer.tag # "Ok"
                      THEN /\ Len(calls) = 1 /\ calls[1].fn = "retrieve_exception"
                           /\ calls[1].args = <<SUBKERNELS[id].destination>>
                           /\ last'.ret = Err(DrtioError(calls[1].answer.err))
                      ELSE FinishRecordOf(id, state.status, calls, last'.ret)
                   /\ SUBKERNELS' = SetState(id, Uploaded)
              ELSE /\ last'.ret = Err(IncorrectState)
                   /\ calls = <<>>
                   /\ SUBKERNELS' = SUBKERNELS
           /\ SecondRetrieve => last'.ret = Err(IncorrectState)]_vars

\* retrieve_finish_status has returned the exception bytes of a
\* Finished{Exception} entry.
C3_Witness ==
    /\ last.op = "retrieve_finish_status" /\ last.ret.tag = "Ok"
    /\ last.ret.val.exception.some
    /\ SUBKERNELS[last.id].state = Uploaded

\* C4 as the claim states it: await_finish on a NotLoaded or Uploaded entry
\* returns IncorrectState at once and changes nothing; otherwise it waits until
\* the entry is Finished or the clock is past entry time + timeout, returns
\* Timeout with the registry unchanged when the clock is past the deadline, and
\* otherwise returns what retrieve_finish_status returns and leaves the entry
\* Uploaded; an entry found Finished{CommLost} is reported as
\* {comm_lost: true, exception: None}.
C4_AwaitFinish ==
    [][StepOf("await_finish") =>
        LET id == last'.id
            state == SUBKERNELS[id].state
        IN /\ last'.at = "precheck" =>
                /\ SUBKERNELS' = SUBKERNELS
                /\ IF state.tag \in {"NotLoaded", "Uploaded"}
                   THEN last'.ret = Err(IncorrectState) /\ pc' = Idle
                   ELSE pc' = AwaitFinish("until", id, clock + last'.args[1])
           /\ last'.at = "until" =>
                /\ SUBKERNELS' = SUBKERNELS
                /\ clock > pc.max_time \/ state.tag = "Finished"
           /\ last'.at = "return" =>
                /\ pc' = Idle
                /\ IF clock > pc.max_time
                   THEN last'.ret = Err(Timeout) /\ SUBKERNELS' = SUBKERNELS
                   ELSE /\ last'.ret # Err(Timeout)
                        /\ SUBKERNELS'[id].state = Uploaded
                        /\ state = Finished("CommLost")
                             => last'.ret = Ok(SubkernelFinished(id, TRUE, None))]_vars

\* C5: destination_changed(d, up = false) leaves no entry of d Running: an entry
\* of d that was Running is Finished{CommLost}, an entry of d in any other state
\* is NotLoaded, and the entries of other destinations are as they were.
DestinationStep(up) == last'.op = "destination_changed" /\ last'.args[2] = up

C5_DestinationDown ==
    [][DestinationStep(FALSE) =>
        LET d == last'.args[1] IN
        /\ DOMAIN SUBKERNELS' = DOMAIN SUBKERNELS
        /\ last'.calls = <<>>
        /\ \A id \in DOMAIN SUBKERNELS :
            LET old == SUBKERNELS[id]
                new == SUBKERNELS'[id]
            IN IF old.destination = d
               THEN /\ new.state # Running
                    /\ new.state = IF old.state = Running
                                   THEN Finished("CommLost") ELSE NotLoaded
                    /\ new.destination = d /\ new.data = old.data
               ELSE new = old]_vars

\* A destination went down with one of its entries Running and the other
\* Finished: the first is Finished{CommLost}, the second NotLoaded.
C5_Witness ==
    /\ last.op = "destination_changed" /\ last.args[2] = FALSE
    /\ \E id, other \in IdsAt(last.args[1]) :
          /\ SUBKERNELS[id].state = Finished("CommLost")
          /\ SUBKERNELS[other].state = NotLoaded

\* C6: destination_changed(d, up = true) asks Transport.upload once for every
\* entry of d, in the registry's order, whatever the earlier answers; an entry
\* whose upload succeeds is Uploaded, an entry whose upload fails is as it was,
\* and the entries of other destinations are as they were.
C6_DestinationUp ==
    [][DestinationStep(TRUE) =>
        LET d == last'.args[1]
            calls == last'.calls
            order == Ascending(IdsAt(d))
        IN /\ DOMAIN SUBKERNELS' = DOMAIN SUBKERNELS
           /\ Len(calls) = Len(order)
           /\ \A i \in 1..Len(order) :
                LET id == order[i]
                    old == SUBKERNELS[id]
                IN /\ calls[i].fn = "upload"
                   /\ calls[i].args = <<id, d, old.data>>
                   /\ SUBKERNELS'[id] = IF calls[i].answer.tag = "Ok"
                                        THEN [old EXCEPT !.state = Uploaded]
                                        ELSE old
           /\ \A id \in (DOMAIN SUBKERNELS) \ IdsAt(d) :
                SUBKERNELS'[id] = SUBKERNELS[id]]_vars

\* A destination came up, the upload of its first entry failed and left it
\* Running, and the upload of its second entry succeeded.
C6_Witness ==
    /\ last.op = "destination_changed" /\ last.args[2] = TRUE
    /\ Len(last.calls) = 2
    /\ last.calls[1].answer.tag = "Err" /\ last.calls[2].answer.tag = "Ok"
    /\ SUBKERNELS[last.calls[1].args[1]].state = Running
    /\ SUBKERNELS[last.calls[2].args[1]].state = Uploaded

\* C7: subkernel_finished(id, with_exception) for an id that is not registered
\* changes neither the registry nor the message queue nor the partial-message
\* map, and does not panic; for a registered id it sets that entry's state to
\* Finished{Exception} or Finished{Ok} and changes nothing else.
C7_SubkernelFinished ==
    [][last'.op = "subkernel_finished" =>
        LET id == last'.id
            status == IF last'.args[1] THEN "Exception" ELSE "Ok"
        IN /\ ~panicked'
           /\ MESSAGE_QUEUE' = MESSAGE_QUEUE
           /\ CURRENT_MESSAGES' = CURRENT_MESSAGES
           /\ IF id \in DOMAIN SUBKERNELS
              THEN SUBKERNELS' = [SUBKERNELS EXCEPT ![id].state = Finished(status)]
              ELSE SUBKERNELS' = SUBKERNELS]_vars

\* A run-done notification has arrived for an id that is not registered while
\* messages of another subkernel are queued and under assembly.
C7_Witness ==
    /\ last.op = "subkernel_finished" /\ last.id \notin DOMAIN SUBKERNELS
    /\ MESSAGE_QUEUE # <<>>
    /\ DOMAIN CURRENT_MESSAGES # {}

\* C8: upload of a registered id calls Transport.upload once with the entry's
\* destination and image, whatever the entry's state; if that succeeds the entry
\* is Uploaded and Ok is returned, if it fails the error is returned as
\* DrtioError and the registry is unchanged.
C8_Upload ==
    [][StepOf("upload") =>
        LET id == last'.id
            calls == last'.calls
        IN /\ Len(calls) = 1
           /\ calls[1].fn = "upload"
           /\ calls[1].args = <<id, SUBKERNELS[id].destination, SUBKERNELS[id].data>>
           /\ IF calls[1].answer.tag = "Ok"
              THEN /\ last'.ret = Ok(Unit)
                   /\ SUBKERNELS' = SetState(id, Uploaded)
              ELSE /\ last'.ret = Err(DrtioError(calls[1].answer.err))
                   /\ SUBKERNELS' = SUBKERNELS]_vars

\* An upload has succeeded on an entry whose run had ended with the other
\* entry still Running.
C8_Witness ==
    /\ last.op = "upload" /\ last.ret = Ok(Unit)
    /\ SUBKERNELS[last.id].state = Uploaded
    /\ \E other \in DOMAIN SUBKERNELS : SUBKERNELS[other].state = Running

\* C9: after add_subkernel(id, d, b) the registry maps id to destination d,
\* image b and state NotLoaded, whatever it held for id before, and every other
\* entry is as it was.
C9_AddSubkernel ==
    [][last'.op = "add_subkernel" =>
        LET id == last'.id IN
        /\ DOMAIN SUBKERNELS' = (DOMAIN SUBKERNELS) \cup {id}
        /\ SUBKERNELS'[id] = [destination |-> last'.args[1], data |-> last'.args[2],
                              state |-> NotLoaded]
        /\ \A other \in (DOMAIN SUBKERNELS) \ {id} :
              SUBKERNELS'[other] = SUBKERNELS[other]]_vars

\* add_subkernel has replaced a Running entry by one with another destination
\* and image, next to an entry that is Finished.
C9_Witness ==
    /\ last.op = "add_subkernel"
    /\ last.replaced.some /\ last.replaced.val.state = Running
    /\ last.replaced.val.destination # last.args[1]
    /\ last.replaced.val.data # last.args[2]
    /\ SUBKERNELS[last.id].state = NotLoaded
    /\ \E other \in DOMAIN SUBKERNELS : SUBKERNELS[other].state.tag = "Finished"

\* The message the claim describes for the frames f1..fn of one id: tag_count
\* and tag are bytes 0 and 1 of f1, data is f1[2..len1] followed by f2[0..len2]
\* ... fn[0..lenn].
RECURSIVE Payloads(_)
Payloads(fs) ==
    IF fs = <<>> THEN <<>>
    ELSE Slice(Head(fs).data, 0, Head(fs).length) \o Payloads(Tail(fs))

Assembled(id, fs) ==
    Message(id, fs[1].data[1], fs[1].data[2],
            Slice(fs[1].data, 2, fs[1].length) \o Payloads(Tail(fs)))

\* What a frame for id does to the queue and to the partial messages, given the
\* frames fs = f1..fn that id's message under assembly consists of with it.
FrameEffect(id, fs) ==
    /\ IF fs[Len(fs)].last
       THEN /\ MESSAGE_QUEUE' = Append(MESSAGE_QUEUE, Assembled(id, fs))
            /\ id \notin DOMAIN CURRENT_MESSAGES'
       ELSE MESSAGE_QUEUE' = MESSAGE_QUEUE
    /\ \A other \in Ids \ {id} :
          /\ (other \in DOMAIN CURRENT_MESSAGES') = (other \in DOMAIN CURRENT_MESSAGES)
          /\ other \in DOMAIN CURRENT_MESSAGES
               => CURRENT_MESSAGES'[other] = CURRENT_MESSAGES[other]

\* C10 as the claim states it: a frame for an id that is not registered changes
\* neither CURRENT_MESSAGES nor MESSAGE_QUEUE; for a registered id, any frames
\* f1..fn of which only fn is last append exactly the message Assembled(id,
\* f1..fn) to the tail of the queue and leave no partial for id, and the
\* partials of other ids are untouched.
C10_MessageAssembly ==
    [][last'.op = "message_handle_incoming" =>
        LET id == last'.id IN
        IF id \notin DOMAIN SUBKERNELS
        THEN /\ MESSAGE_QUEUE' = MESSAGE_QUEUE
             /\ CURRENT_MESSAGES' = CURRENT_MESSAGES
        ELSE FrameEffect(id, Append(pending[id], last'.args))]_vars

\* C10 for the frames the code assembles: for frames f1..fn whose first frame
\* has a length of at least 2 the step does what C10 says and a partial exists
\* exactly while frames of the message are outstanding; a first frame shorter
\* than 2 makes data[2..length] panic.
C10_MessageAssemblyFromHeader ==
    [][last'.op = "message_handle_incoming" =>
        LET id == last'.id
            fs == Append(pending[id], last'.args)
        IN /\ (id \in DOMAIN CURRENT_MESSAGES) = (pending[id] # <<>>)
           /\ IF id \notin DOMAIN SUBKERNELS
              THEN /\ MESSAGE_QUEUE' = MESSAGE_QUEUE
                   /\ CURRENT_MESSAGES' = CURRENT_MESSAGES
                   /\ ~panicked'
              ELSE IF fs[1].length >= 2
              THEN FrameEffect(id, fs) /\ ~panicked'
              ELSE panicked']_vars

\* The last frame of a message of more than one frame has arrived while the
\* other id's message is under assembly: the queue ends with the message, made
\* of the bytes of its own frames (the first and the third of the run).
C10_Witness ==
    /\ last.op = "message_handle_incoming" /\ last.args.last
    /\ MESSAGE_QUEUE # <<>>
    /\ LET m == MESSAGE_QUEUE[Len(MESSAGE_QUEUE)] IN
          /\ m.from_id = last.id
          /\ m.tag_count = 11 /\ m.tag = 12
          /\ m.data = <<13, 31, 32>>
    /\ \E other \in DOMAIN CURRENT_MESSAGES : other # last.id

\* C11: a message_await that returns a message returns the first message of
\* MESSAGE_QUEUE whose from_id is the awaited id and removes exactly that one,
\* the others keeping their order; a wait that finds a message of id queued
\* before the deadline returns it; and every message of id still queued
\* was completed later than the one returned (the first byte of a message is
\* the number of the frame that began it, and one id's messages complete in the
\* order they begin), so successive calls return id's messages in the order
\* their last frames arrived.
C11_MessageAwaitOrder ==
    [][last'.op = "message_await" /\ last'.ret # Panic =>
        LET id == last'.id
            q == MESSAGE_QUEUE
        IN /\ (/\ pc.name = "message_await" /\ pc.at = "until"
               /\ clock <= pc.max_time
               /\ \E i \in 1..Len(q) : q[i].from_id = id)
              => last'.ret.tag = "Ok"
           /\ last'.ret.tag = "Ok" =>
                \E i \in 1..Len(q) :
                   /\ q[i] = last'.ret.val
                   /\ q[i].from_id = id
                   /\ \A j \in 1..(i - 1) : q[j].from_id # id
                   /\ Len(MESSAGE_QUEUE') = Len(q) - 1
                   /\ \A j \in 1..(i - 1) : MESSAGE_QUEUE'[j] = q[j]
                   /\ \A j \in i..(Len(q) - 1) : MESSAGE_QUEUE'[j] = q[j + 1]
                   /\ \A j \in 1..(Len(q) - 1) :
                         MESSAGE_QUEUE'[j].from_id = id
                         => MESSAGE_QUEUE'[j].tag_count > q[i].tag_count]_vars

\* message_await has returned the older of two queued messages of its id from
\* behind a message of the other id, which still heads the queue.
C11_Witness ==
    /\ last.op = "message_await" /\ last.ret.tag = "Ok"
    /\ Len(MESSAGE_QUEUE) = 2
    /\ MESSAGE_QUEUE[1].from_id # last.id
    /\ MESSAGE_QUEUE[1].tag_count < last.ret.val.tag_count
    /\ MESSAGE_QUEUE[2].from_id = last.id

\* The pre-check of message_await and the queue in its error outcomes, as C12
\* and its amended form both state them: a Finished entry gives
\* SubkernelFinished, a NotLoaded or Uploaded one IncorrectState, a Running one
\* enters the wait; a wait that has ended without a message while the clock is
\* past the deadline gives Timeout; an error outcome leaves MESSAGE_QUEUE as it
\* was.
MessageAwaitErrors ==
    /\ last'.at = "precheck" =>
          LET state == SUBKERNELS[last'.id].state IN
          /\ state.tag = "Finished" => last'.ret = Err(SubkernelFinishedError)
          /\ state \in {NotLoaded, Uploaded} => last'.ret = Err(IncorrectState)
          /\ state = Running => last'.ret = Pending
    /\ (pc.name = "message_await" /\ pc.at = "check" /\ clock > pc.max_time)
          => last'.ret = Err(Timeout)
    /\ last'.ret.tag # "Ok" => MESSAGE_QUEUE' = MESSAGE_QUEUE

\* The step that ends a wait which saw the entry Finished before the deadline.
AfterFinishedSeen == pc.name = "message_await" /\ pc.at = "recheck"

\* C12 as the claim states it: MessageAwaitErrors, and a wait on a Running
\* subkernel that sees it Finished before the deadline returns
\* SubkernelFinished.
C12_MessageAwaitOutcome ==
    [][last'.op = "message_await" /\ last'.ret # Panic =>
        /\ MessageAwaitErrors
        /\ AfterFinishedSeen => last'.ret = Err(SubkernelFinishedError)]_vars

\* C12 amended: MessageAwaitErrors, and a wait on a Running subkernel that sees
\* it Finished before the deadline returns SubkernelFinished if the entry is
\* still Finished when message_await has taken the mutex again, and
\* IncorrectState if a callback of the link receiver has changed it by then.
C12_MessageAwaitOutcomeRechecked ==
    [][last'.op = "message_await" /\ last'.ret # Panic =>
        /\ MessageAwaitErrors
        /\ AfterFinishedSeen =>
              last'.ret = IF SUBKERNELS[last'.id].state.tag = "Finished"
                          THEN Err(SubkernelFinishedError)
                          ELSE Err(IncorrectState)]_vars

\* A message_await that waited on a Running subkernel has returned
\* SubkernelFinished.
C12_Witness ==
    /\ last.op = "message_await" /\ last.at = "return"
    /\ last.ret = Err(SubkernelFinishedError)
    /\ SUBKERNELS[last.id].state.tag = "Finished"

\* C13: clear_subkernels leaves the registry, MESSAGE_QUEUE and
\* CURRENT_MESSAGES empty in one step, and no state shows some of them cleared
\* and others not: in every state the completed and the partial messages
\* belong to registered ids.
C13_ClearIsAtomic ==
    /\ [](/\ \A i \in 1..Len(MESSAGE_QUEUE) :
               MESSAGE_QUEUE[i].from_id \in DOMAIN SUBKERNELS
          /\ DOMAIN CURRENT_MESSAGES \subseteq DOMAIN SUBKERNELS)
    /\ [][last'.op = "clear_subkernels" =>
            /\ SUBKERNELS' = EmptyMap
            /\ MESSAGE_QUEUE' = <<>>
            /\ CURRENT_MESSAGES' = EmptyMap]_vars

\* clear_subkernels has run on a registry, a queue and a partial-message map
\* that all held something.
C13_Witness ==
    /\ last.op = "clear_subkernels"
    /\ last.cleared.reg > 0 /\ last.cleared.queue > 0 /\ last.cleared.current > 0
    /\ SUBKERNELS = EmptyMap /\ MESSAGE_QUEUE = <<>> /\ CURRENT_MESSAGES = EmptyMap

\* C14 as the claim states it: clear_subkernels removes every queued message,
\* and a message_await that follows it for an id whose message it removed
\* returns IncorrectState.
C14_AwaitAfterClear ==
    [][/\ last'.op = "clear_subkernels" => MESSAGE_QUEUE' = <<>>
       /\ (/\ last.op = "clear_subkernels"
           /\ last'.op = "message_await"
           /\ last'.id \in last.cleared.from_ids)
          => last'.ret = Err(IncorrectState)]_vars

\* clear_subkernels has removed a queued message: the host task is about to
\* call message_await for its id.
C14_Witness ==
    /\ last.op = "clear_subkernels" /\ last.cleared.from_ids # {}
    /\ MESSAGE_QUEUE = <<>> /\ HostReady

\* The bytes handed out by the first k - 1 calls of get_slice, and the bytes of
\* the first k calls put together.
RECURSIVE Taken(_)
Taken(k) == IF k <= 1 THEN 0 ELSE Taken(k - 1) + sliced[k - 1].meta.len
RECURSIVE Joined(_)
Joined(k) == IF k = 0 THEN <<>> ELSE Joined(k - 1) \o sliced[k].data_slice

\* C18: for any data and either slice size, each get_slice returns len =
\* min(size, remaining) and the bytes at the cursor; last is set first on the
\* call that exhausts the data (for empty data, the first call), the slices up
\* to and including that one put together are the data, every later call
\* returns {len: 0, last: true}, and the cursor never passes the end.
C18_SliceableRoundTrip ==
    LET data == sliceable.data
        n == Len(data)
    IN /\ sliceable.it = Taken(Len(sliced) + 1)
       /\ sliceable.it <= n
       /\ \A k \in 1..Len(sliced) :
             LET s == sliced[k]
                 before == Taken(k)
                 first == \A j \in 1..(k - 1) : ~sliced[j].meta.last
             IN /\ s.meta.len = Min(s.size, n - before)
                /\ s.data_slice = Slice(data, before, before + s.meta.len)
                /\ s.meta.last = (before + s.meta.len = n)
                /\ (s.meta.last /\ first) => Joined(k) = data
                /\ ~first => s.meta = SliceMeta(0, TRUE)

\* Data of exactly two satellite-size slices has been sliced three times: the
\* second slice is full and is the last, the third is {0, true}.
C18_Witness ==
    /\ Len(sliceable.data) = 2 * SAT_PAYLOAD_MAX_SIZE
    /\ Len(sliced) = 3
    /\ \A k \in 1..3 : sliced[k].size = SAT_PAYLOAD_MAX_SIZE
    /\ sliced[1].meta = SliceMeta(SAT_PAYLOAD_MAX_SIZE, FALSE)
    /\ sliced[2].meta = SliceMeta(SAT_PAYLOAD_MAX_SIZE, TRUE)
    /\ sliced[3].meta = SliceMeta(0, TRUE)
    /\ sliceable.it = Len(sliceable.data)
\* A tick whose phase B has read the given kind of request from the mailbox.
TickHandles(step, kinds) ==
    /\ step.op = "process_kern_requests"
    /\ step.b # NotRun
    /\ step.request.kind \in kinds

\* The Manager as the step leaves it.
SelfAfter ==
    [kernels |-> kernels', current_id |-> current_id', session |-> session',
     cache |-> cache', last_finished |-> last_finished', reset |-> reset',
     cricon |-> cricon', mailbox |-> mailbox']

\* C15: a tick of process_kern_requests that handles RunFinished or
\* RunException leaves no session running and last_finished = Some{current_id,
\* false for RunFinished, true for RunException}; get_last_finished returns the
\* record held and leaves None; and last_finished changes in no other step than
\* a get_last_finished or a tick in which a run ends, so the first
\* get_last_finished after the end of a run returns its record and the later
\* ones None until another run ends.
C15_LastFinished ==
    [][/\ TickHandles(last', {"RunFinished", "RunException"}) =>
            /\ ~is_running(SelfAfter)
            /\ last_finished' =
                   Some(SatSubkernelFinished(current_id',
                                             last'.request.kind = "RunException"))
       /\ last'.op = "get_last_finished" =>
            /\ last'.ret = last_finished
            /\ last_finished' = None
       /\ last_finished' # last_finished =>
            \/ last'.op = "get_last_finished"
            \/ /\ last'.op = "process_kern_requests"
               /\ is_running(Self) /\ ~is_running(SelfAfter)
               /\ last_finished'.some /\ last_finished'.val.id = current_id]_vars

\* C15 witness: the first get_last_finished after a run that ended with
\* RunException has returned its record.
C15_Witness ==
    /\ last.op = "get_last_finished"
    /\ last.ret.some
    /\ last.ret.val = SatSubkernelFinished(current_id, TRUE)
    /\ last_finished = None
    /\ session.kernel_state = Absent
    /\ session.last_exception = Some(SliceableNew(<<9>>))

\* The edges of the outbound state machine, each with the call that makes it.
OutEdge(old, new, call) ==
    \/ old = "NoMessage" /\ new = "MessageReady" /\ call = "accept_outgoing"
    \/ old = "MessageReady" /\ new = "MessageBeingSent" /\ call = "is_outgoing_ready"
    \/ old = "MessageBeingSent" /\ new = "MessageSent" /\ call = "get_outgoing_slice"
    \/ old = "MessageSent" /\ new = "MessageAcknowledged" /\ call = "ack_slice"
    \/ old = "MessageAcknowledged" /\ new = "NoMessage"
          /\ call = "was_message_acknowledged"

\* A call that changes out_state makes an edge of the state machine.
OutStep(old, new, call) == new # old => OutEdge(old, new, call)

\* C16: out_state of a session's MessageManager changes only along NoMessage
\* -accept_outgoing-> MessageReady -is_outgoing_ready(true)-> MessageBeingSent
\* -get_outgoing_slice returning last-> MessageSent -ack_slice(false)->
\* MessageAcknowledged -was_message_acknowledged(true)-> NoMessage; ack_slice
\* returns true only in MessageBeingSent and changes the state only in
\* MessageSent; is_outgoing_ready, get_outgoing_slice and
\* was_message_acknowledged outside MessageReady, MessageBeingSent and
\* MessageAcknowledged return false or None and change nothing.  (A load that
\* makes a new Session makes a new MessageManager; a tick may call
\* was_message_acknowledged in phase A and accept_outgoing in phase B.)
C16_OutboundStateMachine ==
    [][LET old == session.messages.out_state
           new == session'.messages.out_state
           step == last'
       IN IF step.op \in {"load", "run"} /\ step.sent # <<>>
          THEN new = "NoMessage"
          ELSE IF step.op = "message_is_ready"
          THEN /\ OutStep(old, new, "is_outgoing_ready")
               /\ step.ret = (old = "MessageReady")
               /\ step.ret = (new # old)
          ELSE IF step.op = "message_get_slice" /\ is_running(Self)
          THEN /\ OutStep(old, new, "get_outgoing_slice")
               /\ step.ret.some = (old = "MessageBeingSent")
               /\ new # old <=> step.ret.some /\ step.ret.val.meta.last
          ELSE IF step.op = "message_ack_slice" /\ is_running(Self)
          THEN /\ OutStep(old, new, "ack_slice")
               /\ step.ret = (old = "MessageBeingSent")
               /\ new # old <=> old = "MessageSent"
          ELSE IF step.op = "process_kern_requests"
          THEN /\ OutStep(old, step.out_mid, "was_message_acknowledged")
               /\ OutStep(step.out_mid, new, "accept_outgoing")
               /\ step.was = MsgSending =>
                    /\ step.a.tag = "Ok" <=> old = "MessageAcknowledged"
                    /\ step.a.tag = "Ok" <=> step.out_mid # old
               /\ step.was # MsgSending => step.out_mid = old
               /\ new # step.out_mid =>
                    step.b.tag = "Ok" /\ step.request.kind = "SubkernelMsgSend"
          ELSE new = old]_vars

\* C16 witness: one tick has seen the acknowledged message off
\* (MessageAcknowledged to NoMessage) and accepted the kernel's next one.
C16_Witness ==
    /\ last.op = "process_kern_requests"
    /\ last.was = MsgSending
    /\ last.a.tag = "Ok"
    /\ last.out_mid = "NoMessage"
    /\ session.messages.out_state = "MessageReady"

\* C17: whenever kernel_state = Running the session's out_state is NoMessage
\* and no outbound message is held, and a tick that hands a SubkernelMsgSend to
\* accept_outgoing finds out_state = NoMessage.
C17_OneOutboundMessage ==
    /\ [](session.kernel_state = Running =>
            /\ session.messages.out_state = "NoMessage"
            /\ session.messages.out_message = None)
    /\ [][TickHandles(last', {"SubkernelMsgSend"}) => last'.out_mid = "NoMessage"]_vars

\* C17 witness: the kernel's message has gone through the whole outbound
\* sequence, the session is Running again and the kernel's next request has
\* been answered.
C17_Witness ==
    /\ last.op = "process_kern_requests"
    /\ last.was = MsgSending
    /\ last.request = Answered
    /\ session.kernel_state = Running
    /\ session.messages.out_state = "NoMessage"

\* C19: after every operation of the Manager the RTIO arbiter selects the
\* kernel exactly when the session is running (Running, MsgAwait or
\* MsgSending), and every step that ends a run, the drop of the Manager
\* included, leaves the arbiter on DRTIO.
C19_ArbiterFollowsSession ==
    /\ [](~dropped => (cricon = "Kernel" <=> is_running(Self)))
    /\ [][/\ is_running(Self) /\ ~is_running(SelfAfter) => cricon' = "Drtio"
          /\ last'.op = "drop" => cricon' = "Drtio"]_vars

\* C19 witness: a run that had the arbiter has been ended by a kernel exception
\* raised while a message was handed to the kernel, and the arbiter is back on
\* DRTIO.
C19_Witness ==
    /\ last.op = "process_kern_requests"
    /\ last.a.tag = "Err"
    /\ last.a.err.kind = "KernelException"
    /\ ~is_running(Self)
    /\ cricon = "Drtio"

\* C20: whenever an operation of the Manager has returned with kernel_state =
\* Absent the reset register is 1, and a load that returns Load, Unexpected,
\* NoMessage or InvalidPointer leaves the reset register at 1.
C20_ResetOwnership ==
    /\ [](~dropped /\ session.kernel_state = Absent => reset = 1)
    /\ [][/\ last'.op = "load"
          /\ last'.ret.tag = "Err"
          /\ last'.ret.err \in {LoadError, Unexpected, NoMessageError, InvalidPointer}
          => reset' = 1]_vars

\* C20 witness: load has sent its LoadRequest, found no reply in the mailbox and
\* returned NoMessage with the session Absent and the processor released.
C20_Witness ==
    /\ last.op = "load"
    /\ last.ret.tag = "Err"
    /\ last.ret.err = NoMessageError
    /\ session.kernel_state = Absent
    /\ reset = 0

\* C21: in every state with kernel_state = Absent or Loaded the cache holds no
\* borrow, and every step that takes the session to Absent (a tick that ends
\* the run, stop, the session reset of load) leaves the cache without borrows.
C21_CacheUnborrowed ==
    /\ [](session.kernel_state \in {Absent, Loaded} => ~cache.borrowed)
    /\ [][session.kernel_state # Absent /\ session'.kernel_state = Absent
            => ~cache'.borrowed]_vars

\* C21 witness: a tick has ended a run that held a borrow of the cache, and the
\* borrow is gone.
C21_Witness ==
    /\ last.op = "process_kern_requests"
    /\ last.borrowed
    /\ session.kernel_state = Absent
    /\ ~cache.borrowed

\* C22: load(id) with current_id = id and kernel_state = Loaded returns Ok,
\* sends nothing and changes nothing; otherwise, with no entry for id or an
\* incomplete one, it returns KernelNotFound and changes nothing (a running
\* kernel keeps running); otherwise it sends the LoadRequest for the image, sets
\* current_id = id and makes a new session, whose kernel_state is Loaded exactly
\* when the reply is LoadReply(Ok), which is when load returns Ok.
C22_Load ==
    [][last'.op = "load" =>
        LET id == last'.args[1]
            loaded == current_id = id /\ session.kernel_state = Loaded
            found == id \in DOMAIN kernels /\ kernels[id].complete
        IN IF loaded
           THEN /\ last'.ret = Ok(Unit)
                /\ last'.sent = <<>>
                /\ UNCHANGED managervars
           ELSE IF ~found
           THEN /\ last'.ret = Err(KernelNotFound)
                /\ last'.sent = <<>>
                /\ UNCHANGED managervars
           ELSE /\ last'.sent = <<LoadRequest(kernels[id].library)>>
                /\ current_id' = id
                /\ kernels' = kernels
                /\ session' = [SessionNew EXCEPT !.kernel_state =
                                  IF last'.reply = LoadReply(TRUE)
                                  THEN Loaded ELSE Absent]
                /\ last'.ret.tag = "Ok" <=> last'.reply = LoadReply(TRUE)]_vars

\* C22 witness: a load of an incomplete image has returned KernelNotFound while
\* the kernel of the other id goes on running.
C22_Witness ==
    /\ last.op = "load"
    /\ last.ret = Err(KernelNotFound)
    /\ last.args[1] \in DOMAIN kernels
    /\ ~kernels[last.args[1]].complete
    /\ session.kernel_state = Running
    /\ current_id # last.args[1]
    /\ reset = 0
    /\ cricon = "Kernel"

\* C23: add(id, last, data, data_len) starts a new image holding only the
\* chunk data[0..data_len] when id has no entry or a complete one, appends the
\* chunk when the entry is incomplete, leaves complete = last, and leaves the
\* entries of the other ids as they were.
C23_Add ==
    [][last'.op = "add" =>
        LET id == last'.args[1]
            lastf == last'.args[2]
            chunk == SubSeq(last'.args[3], 1, last'.args[4])
            before == IF id \in DOMAIN kernels /\ ~kernels[id].complete
                      THEN kernels[id].library ELSE <<>>
        IN /\ DOMAIN kernels' = DOMAIN kernels \cup {id}
           /\ kernels'[id].library = before \o chunk
           /\ kernels'[id].complete = lastf
           /\ \A other \in DOMAIN kernels \ {id} : kernels'[other] = kernels[other]
           /\ last'.ret = Ok(Unit)]_vars

\* C23 witness: three chunks have gone to one id; the first made a complete
\* image, and the two that followed have replaced it with their concatenation.
C23_Witness ==
    /\ last.op = "add"
    /\ nframes = 3
    /\ DOMAIN kernels = {last.args[1]}
    /\ kernels[last.args[1]] = KernelLibrary(<<21, 22, 31>>, TRUE)

\* The errors of a tick that are reported: all but KernelException and the
\* control signals NoMessage and AwaitingMessage.
ReportedErrors == {LoadError, KernelNotFound, InvalidPointer, Unexpected, SubkernelIoError}

\* The result of a phase is one of the given errors.
PhaseFails(r, errors) == r.tag = "Err" /\ r.err \in errors

C25_MsgAwaitResolution ==
    [][last'.op = "process_kern_requests" /\ last'.was.tag = "MsgAwait" =>
        LET queue == session.messages.in_queue
        IN IF clock > last'.was.max_time
           THEN /\ last'.a = Ok(Unit)
                /\ last'.sent # <<>>
                /\ Head(last'.sent) = SubkernelMsgRecvReply("Timeout", 0)
                /\ last'.a_state = Running
                /\ last'.a_queue = queue
           ELSE IF queue # <<>>
           THEN /\ last'.sent # <<>>
                /\ Head(last'.sent) = SubkernelMsgRecvReply("NoError", Head(queue).count)
                /\ last'.a_state = Running
                /\ last'.a_queue = Tail(queue)
           ELSE /\ last'.a = Err(AwaitingMessage)
                /\ last'.b = NotRun
                /\ last'.sent = <<>>
                /\ UNCHANGED managervars]_vars

\* C25 witness: the deadline has passed with a message queued; the tick has
\* replied Timeout and the message is still queued.
C25_Witness ==
    /\ last.op = "process_kern_requests"
    /\ last.was.tag = "MsgAwait"
    /\ last.sent # <<>>
    /\ Head(last.sent) = SubkernelMsgRecvReply("Timeout", 0)
    /\ last.a_queue # <<>>
    /\ session.messages.in_queue = last.a_queue

\* C26: while kernel_state = MsgSending the mailbox holds the kernel's
\* SubkernelMsgSend, not acknowledged; a tick that finds MsgSending with
\* out_state other than MessageAcknowledged changes nothing and reads no
\* request; a tick that finds MsgSending with out_state = MessageAcknowledged,
\* which only the acknowledgement of the last slice makes, acknowledges the
\* request and sets kernel_state = Running and out_state = NoMessage.
C26_SendAckOrdering ==
    /\ [](session.kernel_state = MsgSending => mailbox.kind = "SubkernelMsgSend")
    /\ [][last'.op = "process_kern_requests" /\ last'.was = MsgSending =>
            IF session.messages.out_state = "MessageAcknowledged"
            THEN /\ last'.a = Ok(Unit)
                 /\ last'.a_state = Running
                 /\ last'.a_mailbox = NoRequest
                 /\ last'.out_mid = "NoMessage"
            ELSE /\ last'.a = Err(AwaitingMessage)
                 /\ last'.b = NotRun
                 /\ UNCHANGED managervars]_vars
    /\ [][/\ session'.messages.out_state = "MessageAcknowledged"
          /\ session.messages.out_state # "MessageAcknowledged"
          => /\ last'.op = "message_ack_slice"
             /\ session.messages.out_state = "MessageSent"
             /\ session.messages.out_message = None]_vars

\* C26 witness: the tick after the acknowledgement of the last slice has
\* acknowledged the kernel's send, and the kernel has posted nothing since.
C26_Witness ==
    /\ last.op = "process_kern_requests"
    /\ last.was = MsgSending
    /\ last.a = Ok(Unit)
    /\ last.a_mailbox = NoRequest
    /\ last.b = Err(NoMessageError)
    /\ session.kernel_state = Running
    /\ session.messages.out_state = "NoMessage"

\* The control signals of a tick.
ControlSignals == {NoMessageError, AwaitingMessage}

\* C27: a tick of a running session in which NoMessage or AwaitingMessage
\* arises, in phase A (the kernel not presenting its RpcRecvRequest in time
\* while a message is handed to it included) or in phase B, only pauses: the
\* processor stays released, kernel_state does not become Absent, and
\* last_exception and last_finished stay as they were.
C27_SignalsNeverFatal ==
    [][/\ last'.op = "process_kern_requests"
       /\ is_running(Self)
       /\ \/ PhaseFails(last'.a, ControlSignals)
          \/ last'.a = Ok(Unit) /\ PhaseFails(last'.b, ControlSignals)
       => /\ reset' = reset
          /\ session'.kernel_state # Absent
          /\ session'.last_exception = session.last_exception
          /\ last_finished' = last_finished]_vars

\* C27 witness: the kernel has not presented its RpcRecvRequest in time, phase
\* A has returned NoMessage, and the run has been ended with the synthesised
\* exception.
C27_Witness ==
    /\ last.op = "process_kern_requests"
    /\ last.was.tag = "MsgAwait"
    /\ last.a = Err(NoMessageError)
    /\ reset = 1
    /\ session.kernel_state = Absent
    /\ session.last_exception = Some(SliceableNew(<<11>>))
    /\ last_finished = Some(SatSubkernelFinished(current_id, TRUE))

\* The message a satellite Message and a master Message carry.
Carried(message) == <<message.count, message.tag, message.data>>
CarriedByMaster(message) == <<message.tag_count, message.tag, message.data>>

\* The satellite's MessageManager and the master hold the same messages of id:
\* the same queue and the same message under assembly.
SameMessages(messages, queue, current, id) ==
    /\ Len(messages.in_queue) = Len(queue)
    /\ \A i \in 1..Len(queue) :
          /\ queue[i].from_id = id
          /\ Carried(messages.in_queue[i]) = CarriedByMaster(queue[i])
    /\ messages.in_buffer.some <=> id \in DOMAIN current
    /\ messages.in_buffer.some =>
          Carried(messages.in_buffer.val) = CarriedByMaster(current[id])
SameInbound(id) == SameMessages(session.messages, MESSAGE_QUEUE, CURRENT_MESSAGES, id)

\* C28: a frame handed to the master for a registered id and to the satellite
\* while its session is running, when both hold the same messages, leaves both
\* holding the same messages (same count, tag and data, in the same order), and
\* the one panics exactly when the other does; a frame handed to the satellite
\* while no session is running changes neither in_buffer nor in_queue.
C28_InboundAssembly ==
    /\ [](last.op = "init" => SameInbound(7))
    /\ [][last'.op = "link_frame" =>
            /\ last'.id \in DOMAIN SUBKERNELS /\ is_running(Self) /\ SameInbound(last'.id) =>
                 /\ last'.master_panics = last'.sat_panics
                 /\ SameMessages(session'.messages, MESSAGE_QUEUE', CURRENT_MESSAGES',
                                 last'.id)
            /\ ~is_running(Self) => /\ session' = session
                                    /\ ~last'.sat_panics]_vars

\* C28 witness: both sides have assembled the same message from two frames.
C28_Witness ==
    /\ last.op = "link_frame"
    /\ last.args.last
    /\ is_running(Self)
    /\ SameInbound(7)
    /\ Len(MESSAGE_QUEUE) = 1
    /\ Len(MESSAGE_QUEUE[1].data) > MASTER_PAYLOAD_MAX_SIZE - 2

\* C29 as the claim states it: an await_finish that has passed its pre-check and
\* whose wait ended before the deadline because the entry was seen Finished
\* still finds the entry Finished when it retrieves the status, whatever the
\* link receiver did in between, and its return is not IncorrectState.
C29_ObservedFinishKept ==
    /\ [](pc.name = "await_finish" /\ pc.at = "retrieve" /\ ~panicked
            => /\ pc.id \in DOMAIN SUBKERNELS
               /\ SUBKERNELS[pc.id].state.tag = "Finished")
    /\ [][StepOf("await_finish") /\ last'.at = "return" /\ pc.at = "retrieve"
            => last'.ret # Err(IncorrectState)]_vars

\* await_finish has returned IncorrectState from its status retrieval, after
\* its wait had seen the entry Finished.
C29_Witness ==
    /\ last.op = "await_finish" /\ last.at = "return"
    /\ last.ret = Err(IncorrectState)
    /\ last.id \in DOMAIN SUBKERNELS
    /\ SUBKERNELS[last.id].state = NotLoaded

\* C30 as the claim states it: a master operation that returns an error leaves
\* the registry as it was before the call; in particular a
\* retrieve_finish_status whose Transport.retrieve_exception fails leaves the
\* entry Finished{Exception}.
ReturnsError(op) == last'.op = op /\ last'.ret.tag = "Err"

C30_ErrorLeavesState ==
    [][(\/ ReturnsError("upload")
        \/ ReturnsError("load")
        \/ ReturnsError("retrieve_finish_status")
        \/ ReturnsError("await_finish"))
          => SUBKERNELS' = SUBKERNELS]_vars

\* retrieve_finish_status has returned the transport's error on a
\* Finished{Exception} entry, and the entry is Uploaded.
C30_Witness ==
    /\ last.op = "retrieve_finish_status"
    /\ last.ret.tag = "Err"
    /\ Len(last.calls) = 1
    /\ last.calls[1].fn = "retrieve_exception"
    /\ SUBKERNELS[last.id].state = Uploaded

\* C31 as the claim states it: a successful run(id) executes the image stored
\* as complete for id.  Every chunk of a run differs from every other
\* (ChunkPayload), so an image completed by the step before run(id) has never
\* been handed over: that run has to send it in a LoadRequest, also when id was
\* current_id in state Loaded before the replacement was added.
CompletedImage(id) ==
    /\ last.op = "add" /\ last.args[1] = id /\ last.args[2]
    /\ id \in DOMAIN kernels /\ kernels[id].complete

C31_RunsReplacement ==
    [][(/\ last'.op = "run" /\ last'.ret = Ok(Unit)
        /\ CompletedImage(last'.args[1]))
          => last'.sent = <<LoadRequest(kernels[last'.args[1]].library)>>]_vars

\* run(7) has returned Ok and started the session without a LoadRequest, with
\* an image stored for 7 that was completed after the first chunk of the run.
C31_Witness ==
    /\ last.op = "run" /\ last.args = <<7>>
    /\ last.ret = Ok(Unit) /\ last.sent = <<>>
    /\ session.kernel_state = Running /\ current_id = 7
    /\ kernels[7].complete
    /\ kernels[7].library[1] > ChunkPayload(1)[1]

\* C32 as the claim states it: when message_is_ready() has returned true, the
\* message_get_slice() that follows it returns Some slice, after any sequence
\* of Manager operations.
C32_ReadyThenSlice ==
    [][(/\ last.op = "message_is_ready" /\ last.ret = TRUE
        /\ last'.op = "message_get_slice")
          => last'.ret # None]_vars

\* message_get_slice has returned None on a session that is not running while
\* the staged message is marked as being sent.
C32_Witness ==
    /\ last.op = "message_get_slice" /\ last.ret = None
    /\ ~is_running(Self)
    /\ session.messages.out_state = "MessageBeingSent"
    /\ session.messages.out_message # None

\* C33: while the main loop keeps calling process_kern_requests and the clock
\* keeps advancing, a session in MsgAwait leaves MsgAwait: a tick resolves the
\* wait (by a message or by the deadline) or the session becomes Absent,
\* whether or not an inbound message arrives.
InMsgAwait == ~panicked /\ ~dropped /\ session.kernel_state.tag = "MsgAwait"
WaitResolved ==
    /\ last.op = "process_kern_requests"
    /\ last.was.tag = "MsgAwait"
    /\ last.a_state.tag # "MsgAwait"

C33_MsgAwaitEnds ==
    InMsgAwait ~> (session.kernel_state.tag # "MsgAwait" \/ WaitResolved)

\* A tick has ended a wait on its deadline with no inbound message queued.
C33_Witness ==
    /\ WaitResolved
    /\ last.a_queue = <<>>
    /\ session.messages.in_queue = <<>>
    /\ Head(last.sent) = SubkernelMsgRecvReply("Timeout", 0)
    /\ session.kernel_state = Running

====
